---- MODULE Spec2Model ----
(***************************************************************************)
(* Model of the maintenance-document ingestion backend: the ingest trigger *)
(* and its background pipeline run, the structured extractor (AI path and  *)
(* regex fallback), the field normalizer, the anomaly detector and the     *)
(* legacy spreadsheet conversion.                                          *)
(*                                                                         *)
(* Python values are tagged records; a Python str is a sequence of         *)
(* one-character strings, so that strip/lower/substring tests are computed *)
(* as the code computes them.                                              *)
(***************************************************************************)
EXTENDS Integers, Sequences, FiniteSets, TLC

\* ------------------------------------------------------------------------
\* Python values
\* ------------------------------------------------------------------------
None == [t |-> "none"]
Str(s) == [t |-> "str", s |-> s]
Num(n) == [t |-> "num", n |-> n]
Bool(b) == [t |-> "bool", b |-> b]
Date(y, m, d) == [t |-> "date", y |-> y, m |-> m, d |-> d]
\* decimal.Decimal with value u * 10^(-sc)
Dec(u, sc) == [t |-> "dec", u |-> u, sc |-> sc]
\* a container where a scalar is expected: Other("list") is the list [1],
\* Other("dict") the dict {'a': 1}
Other(k) == [t |-> "other", k |-> k]
\* a dict (JSON object) as an element of a list
Obj(d) == [t |-> "dict", d |-> d]
\* a list (JSON array) with the elements of the sequence e
JList(e) == [t |-> "list", e |-> e]
\* the outcome "an exception propagates to the caller"
Raise == [t |-> "raise"]
\* the outcome "returns the list v"
Ok(v) == [t |-> "ok", v |-> v]

IsNone(v) == v.t = "none"
IsStr(v) == v.t = "str"

\* ------------------------------------------------------------------------
\* Characters and str methods
\* ------------------------------------------------------------------------
UpperChars == <<"A","B","C","D","E","F","G","H","I","J","K","L","M",
                "N","O","P","Q","R","S","T","U","V","W","X","Y","Z">>
LowerChars == <<"a","b","c","d","e","f","g","h","i","j","k","l","m",
                "n","o","p","q","r","s","t","u","v","w","x","y","z">>
DigitChars == <<"0","1","2","3","4","5","6","7","8","9">>

IsSpace(c) == c \in {" ", "\n", "\t"}
IsDigit(c) == \E i \in 1..10 : DigitChars[i] = c
DigitVal(c) == (CHOOSE i \in 1..10 : DigitChars[i] = c) - 1

LowerChar(c) ==
    IF \E i \in 1..26 : UpperChars[i] = c
    THEN LowerChars[CHOOSE i \in 1..26 : UpperChars[i] = c]
    ELSE c

\* str.lower()
Lower(s) == [i \in 1..Len(s) |-> LowerChar(s[i])]

RECURSIVE LStrip(_)
LStrip(s) ==
    IF s = <<>> THEN <<>>
    ELSE IF IsSpace(Head(s)) THEN LStrip(Tail(s)) ELSE s

RECURSIVE RStrip(_)
RStrip(s) ==
    IF s = <<>> THEN <<>>
    ELSE IF IsSpace(s[Len(s)]) THEN RStrip(SubSeq(s, 1, Len(s) - 1)) ELSE s

\* str.strip()
Strip(s) == RStrip(LStrip(s))

RECURSIVE CollapseWs(_, _)
CollapseWs(s, prevSpace) ==
    IF s = <<>> THEN <<>>
    ELSE IF IsSpace(Head(s))
         THEN IF prevSpace THEN CollapseWs(Tail(s), TRUE)
              ELSE <<" ">> \o CollapseWs(Tail(s), TRUE)
         ELSE <<Head(s)>> \o CollapseWs(Tail(s), FALSE)

\* ' '.join(s.split())
JoinSplit(s) == CollapseWs(Strip(s), FALSE)

\* kw in s  (substring test)
Contains(s, kw) ==
    \E i \in 1..(Len(s) - Len(kw) + 1) : SubSeq(s, i, i + Len(kw) - 1) = kw

\* s.replace(c, '') for a one-character c
RECURSIVE RemoveChar(_, _)
RemoveChar(s, c) ==
    IF s = <<>> THEN <<>>
    ELSE IF Head(s) = c THEN RemoveChar(Tail(s), c)
         ELSE <<Head(s)>> \o RemoveChar(Tail(s), c)

RECURSIVE NatDigits(_)
NatDigits(n) ==
    IF n < 10 THEN <<DigitChars[n + 1]>>
    ELSE NatDigits(n \div 10) \o <<DigitChars[(n % 10) + 1]>>

IntDigits(n) == IF n < 0 THEN <<"-">> \o NatDigits(0 - n) ELSE NatDigits(n)

Pad2(n) == IF n < 10 THEN <<"0">> \o NatDigits(n) ELSE NatDigits(n)
Pad4(n) ==
    IF n < 10 THEN <<"0","0","0">> \o NatDigits(n)
    ELSE IF n < 100 THEN <<"0","0">> \o NatDigits(n)
    ELSE IF n < 1000 THEN <<"0">> \o NatDigits(n)
    ELSE NatDigits(n)

\* date.isoformat(), which is also str(date)
IsoFormat(d) == Pad4(d.y) \o <<"-">> \o Pad2(d.m) \o <<"-">> \o Pad2(d.d)

RECURSIVE Pow10(_)
Pow10(k) == IF k = 0 THEN 1 ELSE 10 * Pow10(k - 1)

RECURSIVE PadLeftZeros(_, _)
PadLeftZeros(s, width) ==
    IF Len(s) >= width THEN s ELSE PadLeftZeros(<<"0">> \o s, width)

\* str(Decimal) for the plain (non-exponent) values the model holds
DecStr(v) ==
    LET Placed(ds) ==
            IF v.sc = 0 THEN ds
            ELSE SubSeq(ds, 1, Len(ds) - v.sc) \o <<".">>
                 \o SubSeq(ds, Len(ds) - v.sc + 1, Len(ds))
    IN (IF v.u < 0 THEN <<"-">> ELSE <<>>)
       \o Placed(PadLeftZeros(NatDigits(IF v.u < 0 THEN 0 - v.u ELSE v.u),
                              v.sc + 1))

\* str(value)
PyStr(v) ==
    CASE v.t = "str" -> v.s
      [] v.t = "num" -> IntDigits(v.n)
      [] v.t = "bool" -> IF v.b THEN <<"T","r","u","e">>
                         ELSE <<"F","a","l","s","e">>
      [] v.t = "date" -> IsoFormat(v)
      [] v.t = "dec" -> DecStr(v)
      [] v.t = "float" -> DecStr(v)
      [] v.t = "none" -> <<"N","o","n","e">>
      [] v.t = "other" /\ v.k = "list" -> <<"[","1","]">>
      [] OTHER -> <<"{","'","a","'",":"," ","1","}">>

\* bool(value): Python truthiness
Truthy(v) ==
    CASE v.t = "none" -> FALSE
      [] v.t = "str" -> v.s # <<>>
      [] v.t = "num" -> v.n # 0
      [] v.t = "bool" -> v.b
      [] v.t = "dec" -> v.u # 0
      [] v.t = "float" -> v.u # 0
      [] OTHER -> TRUE

\* dict.get(key): a missing key reads as None
Get(rec, k) == IF k \in DOMAIN rec THEN rec[k] ELSE None

\* ------------------------------------------------------------------------
\* services/normalizer.py : DataNormalizer
\* ------------------------------------------------------------------------
S_high == <<"h","i","g","h">>
S_medium == <<"m","e","d","i","u","m">>
S_low == <<"l","o","w">>
S_open == <<"o","p","e","n">>
S_in_progress == <<"i","n","-","p","r","o","g","r","e","s","s">>
S_awaiting_parts == <<"a","w","a","i","t","i","n","g","-","p","a","r","t","s">>
S_complete == <<"c","o","m","p","l","e","t","e">>

\* PRIORITY_MAP, as a sequence of <<alias, canonical>> pairs
PRIORITY_MAP ==
    << <<<<"1">>, S_high>>, <<<<"p","1">>, S_high>>,
       <<<<"c","r","i","t","i","c","a","l">>, S_high>>,
       <<<<"u","r","g","e","n","t">>, S_high>>,
       <<<<"2">>, S_medium>>, <<<<"p","2">>, S_medium>>,
       <<<<"m","o","d","e","r","a","t","e">>, S_medium>>,
       <<<<"n","o","r","m","a","l">>, S_medium>>,
       <<<<"3">>, S_low>>, <<<<"p","3">>, S_low>>,
       <<<<"m","i","n","o","r">>, S_low>>,
       <<<<"r","o","u","t","i","n","e">>, S_low>> >>

\* STATUS_MAP, as a sequence of <<alias, canonical>> pairs
STATUS_MAP ==
    << <<<<"n","e","w">>, S_open>>,
       <<<<"p","e","n","d","i","n","g">>, S_open>>,
       <<<<"c","r","e","a","t","e","d">>, S_open>>,
       <<<<"s","t","a","r","t","e","d">>, S_in_progress>>,
       <<<<"w","o","r","k","i","n","g">>, S_in_progress>>,
       <<<<"a","c","t","i","v","e">>, S_in_progress>>,
       <<<<"w","a","i","t","i","n","g">>, S_awaiting_parts>>,
       <<<<"h","o","l","d">>, S_awaiting_parts>>,
       <<<<"b","l","o","c","k","e","d">>, S_awaiting_parts>>,
       <<<<"d","o","n","e">>, S_complete>>,
       <<<<"f","i","n","i","s","h","e","d">>, S_complete>>,
       <<<<"c","l","o","s","e","d">>, S_complete>> >>

InMap(map, key) == \E i \in 1..Len(map) : map[i][1] = key
MapGet(map, key) == map[CHOOSE i \in 1..Len(map) : map[i][1] = key][2]

S_null == <<"n","u","l","l">>
S_none == <<"n","o","n","e">>
S_n_a == <<"n","/","a">>
S_na == <<"n","a">>

\* the null-like tokens of normalize_string
StringNullLike == {S_null, S_none, S_n_a, S_na, <<>>}
\* the null-like tokens of normalize_date and normalize_cost
FieldNullLike == {S_null, S_none, S_n_a, <<>>}

MonthNames ==
    << <<"j","a","n","u","a","r","y">>,
       <<"f","e","b","r","u","a","r","y">>,
       <<"m","a","r","c","h">>,
       <<"a","p","r","i","l">>,
       <<"m","a","y">>,
       <<"j","u","n","e">>,
       <<"j","u","l","y">>,
       <<"a","u","g","u","s","t">>,
       <<"s","e","p","t","e","m","b","e","r">>,
       <<"o","c","t","o","b","e","r">>,
       <<"n","o","v","e","m","b","e","r">>,
       <<"d","e","c","e","m","b","e","r">> >>
MonthAbbrs ==
    << <<"j","a","n">>,
       <<"f","e","b">>,
       <<"m","a","r">>,
       <<"a","p","r">>,
       <<"m","a","y">>,
       <<"j","u","n">>,
       <<"j","u","l">>,
       <<"a","u","g">>,
       <<"s","e","p">>,
       <<"o","c","t">>,
       <<"n","o","v">>,
       <<"d","e","c">> >>

\* normalize_string testing for the null-like tokens before stripping
normalize_string_unstripped_test(value) ==
    LET Collapsed(s2) == IF s2 # <<>> THEN Str(s2) ELSE None
        Cleaned(s) == IF Lower(s) \in StringNullLike THEN None
                      ELSE Collapsed(JoinSplit(Strip(s)))
    IN IF IsNone(value) THEN None ELSE Cleaned(PyStr(value))

\* normalize_string(value)
normalize_string(value) ==
    LET Collapsed(s2) == IF s2 # <<>> THEN Str(s2) ELSE None
        Cleaned(s) == IF Lower(s) \in StringNullLike THEN None
                      ELSE Collapsed(JoinSplit(s))
    IN IF IsNone(value) THEN None ELSE Cleaned(Strip(PyStr(value)))

\* normalize_priority handing back the cleaned token when nothing matches
normalize_priority_passthrough(value) ==
    LET Mapped(s) ==
            IF s \in {S_high, S_medium, S_low} THEN Str(s)
            ELSE IF InMap(PRIORITY_MAP, s) THEN Str(MapGet(PRIORITY_MAP, s))
            ELSE IF \E k \in {S_high, <<"c","r","i","t","i","c","a","l">>, <<"u","r","g","e","n","t">>,
                              <<"e","m","e","r","g","e","n","c","y">>} : Contains(s, k)
            THEN Str(S_high)
            ELSE IF \E k \in {S_medium, <<"m","o","d","e","r","a","t","e">>, <<"n","o","r","m","a","l">>} :
                        Contains(s, k)
            THEN Str(S_medium)
            ELSE IF \E k \in {S_low, <<"m","i","n","o","r">>, <<"r","o","u","t","i","n","e">>} : Contains(s, k)
            THEN Str(S_low)
            ELSE Str(s)
    IN IF IsNone(value) THEN None ELSE Mapped(Strip(Lower(PyStr(value))))

\* normalize_priority(value)
normalize_priority(value) ==
    LET Mapped(s) ==
            IF s \in {S_high, S_medium, S_low} THEN Str(s)
            ELSE IF InMap(PRIORITY_MAP, s) THEN Str(MapGet(PRIORITY_MAP, s))
            ELSE IF \E k \in {S_high, <<"c","r","i","t","i","c","a","l">>, <<"u","r","g","e","n","t">>,
                              <<"e","m","e","r","g","e","n","c","y">>} : Contains(s, k)
            THEN Str(S_high)
            ELSE IF \E k \in {S_medium, <<"m","o","d","e","r","a","t","e">>, <<"n","o","r","m","a","l">>} :
                        Contains(s, k)
            THEN Str(S_medium)
            ELSE IF \E k \in {S_low, <<"m","i","n","o","r">>, <<"r","o","u","t","i","n","e">>} : Contains(s, k)
            THEN Str(S_low)
            ELSE None
    IN IF IsNone(value) THEN None ELSE Mapped(Strip(Lower(PyStr(value))))

\* normalize_status(value)
normalize_status(value) ==
    LET Mapped(s) ==
            IF s \in {S_open, S_in_progress, S_awaiting_parts, S_complete}
            THEN Str(s)
            ELSE IF InMap(STATUS_MAP, s) THEN Str(MapGet(STATUS_MAP, s))
            ELSE Str(S_open)
    IN IF IsNone(value) THEN Str(S_open)
       ELSE Mapped(Strip(Lower(PyStr(value))))

\* ------------------------------------------------------------------------
\* datetime.strptime(s, fmt).date(), for the directives the code uses.
\* A format is a sequence of directives; matching follows the regular
\* expression strptime builds: alternatives are tried in its order, the
\* first match is taken, and text left over after it is an error.
\* ------------------------------------------------------------------------
DirY == [k |-> "Y"]
DirM == [k |-> "m"]
DirD == [k |-> "d"]
DirB == [k |-> "B"]
DirBAbbr == [k |-> "b"]
DirWs == [k |-> "ws"]
Lit(c) == [k |-> "lit", c |-> c]

NoMatch == [ok |-> FALSE]

AllDigits(s, i, n) ==
    /\ i + n - 1 <= Len(s)
    /\ \A j \in i..(i + n - 1) : IsDigit(s[j])

Num2(s, i) == 10 * DigitVal(s[i]) + DigitVal(s[i + 1])

RECURSIVE WsRun(_, _)
WsRun(s, i) == IF i <= Len(s) /\ IsSpace(s[i]) THEN 1 + WsRun(s, i + 1) ELSE 0

\* the alternatives of one directive that match at position i, in the
\* order the regular expression tries them: <<length, field, value>>
DirAlts(s, i, dir) ==
    CASE dir.k = "Y" ->
            IF AllDigits(s, i, 4)
            THEN << <<4, "y", 100 * Num2(s, i) + Num2(s, i + 2)>> >>
            ELSE <<>>
      [] dir.k = "m" ->
            (IF AllDigits(s, i, 2) /\ Num2(s, i) \in 1..12
             THEN << <<2, "m", Num2(s, i)>> >> ELSE <<>>)
            \o (IF AllDigits(s, i, 1) /\ DigitVal(s[i]) \in 1..9
                THEN << <<1, "m", DigitVal(s[i])>> >> ELSE <<>>)
      [] dir.k = "d" ->
            (IF AllDigits(s, i, 2) /\ Num2(s, i) \in 1..31
             THEN << <<2, "d", Num2(s, i)>> >> ELSE <<>>)
            \o (IF AllDigits(s, i, 1) /\ DigitVal(s[i]) \in 1..9
                THEN << <<1, "d", DigitVal(s[i])>> >> ELSE <<>>)
            \o (IF i + 1 <= Len(s) /\ s[i] = " " /\ IsDigit(s[i + 1])
                   /\ DigitVal(s[i + 1]) \in 1..9
                THEN << <<2, "d", DigitVal(s[i + 1])>> >> ELSE <<>>)
      [] dir.k = "B" ->
            LET hit == {n \in 1..12 :
                          /\ i + Len(MonthNames[n]) - 1 <= Len(s)
                          /\ Lower(SubSeq(s, i, i + Len(MonthNames[n]) - 1))
                               = MonthNames[n]}
            IN IF hit = {} THEN <<>>
               ELSE LET n == CHOOSE n \in hit : TRUE
                    IN << <<Len(MonthNames[n]), "m", n>> >>
      [] dir.k = "b" ->
            LET hit == {n \in 1..12 :
                          /\ i + 2 <= Len(s)
                          /\ Lower(SubSeq(s, i, i + 2)) = MonthAbbrs[n]}
            IN IF hit = {} THEN <<>>
               ELSE LET n == CHOOSE n \in hit : TRUE
                    IN << <<3, "m", n>> >>
      [] dir.k = "ws" ->
            LET run == WsRun(s, i)
            IN [j \in 1..run |-> <<run - j + 1, "none", 0>>]
      [] dir.k = "lit" ->
            IF i <= Len(s) /\ s[i] = dir.c THEN << <<1, "none", 0>> >>
            ELSE <<>>

RECURSIVE StrpMatch(_, _, _, _)
RECURSIVE StrpTry(_, _, _, _, _)

\* the first match of the remaining directives fmt at position i
StrpMatch(s, i, fmt, acc) ==
    IF fmt = <<>> THEN [ok |-> TRUE, y |-> acc.y, m |-> acc.m, d |-> acc.d,
                        end |-> i]
    ELSE StrpTry(s, i, DirAlts(s, i, Head(fmt)), Tail(fmt), acc)

StrpTry(s, i, alts, rest, acc) ==
    LET Rest(r) == IF r.ok THEN r ELSE StrpTry(s, i, Tail(alts), rest, acc)
        Take(a) ==
            Rest(StrpMatch(s, i + a[1], rest,
                           IF a[2] = "none" THEN acc
                           ELSE [acc EXCEPT ![a[2]] = a[3]]))
    IN IF alts = <<>> THEN NoMatch ELSE Take(Head(alts))

IsLeap(y) == (y % 4 = 0 /\ y % 100 # 0) \/ y % 400 = 0

DaysInMonth(y, m) ==
    IF m = 2 THEN (IF IsLeap(y) THEN 29 ELSE 28)
    ELSE IF m \in {4, 6, 9, 11} THEN 30 ELSE 31

\* strptime(s, fmt).date(), or None where strptime raises ValueError
Strptime(s, fmt) ==
    LET Checked(r) ==
            IF ~r.ok THEN None
            ELSE IF r.end # Len(s) + 1 THEN None
            ELSE IF r.y < 1 \/ r.d > DaysInMonth(r.y, r.m) THEN None
            ELSE Date(r.y, r.m, r.d)
    IN Checked(StrpMatch(s, 1, fmt, [y |-> 0, m |-> 0, d |-> 0]))

Fmt_Ymd_dash == <<DirY, Lit("-"), DirM, Lit("-"), DirD>>
Fmt_mdY_slash == <<DirM, Lit("/"), DirD, Lit("/"), DirY>>
Fmt_dmY_slash == <<DirD, Lit("/"), DirM, Lit("/"), DirY>>
Fmt_Ymd_slash == <<DirY, Lit("/"), DirM, Lit("/"), DirD>>
Fmt_mdY_dash == <<DirM, Lit("-"), DirD, Lit("-"), DirY>>
Fmt_dmY_dash == <<DirD, Lit("-"), DirM, Lit("-"), DirY>>
Fmt_Ymd_compact == <<DirY, DirM, DirD>>
Fmt_BdY == <<DirB, DirWs, DirD, Lit(","), DirWs, DirY>>
Fmt_bdY == <<DirBAbbr, DirWs, DirD, Lit(","), DirWs, DirY>>

\* the first format of fmts that parses s, or None
RECURSIVE FirstFormat(_, _)
FirstFormat(s, fmts) ==
    LET Parsed(r) == IF ~IsNone(r) THEN r ELSE FirstFormat(s, Tail(fmts))
    IN IF fmts = <<>> THEN None ELSE Parsed(Strptime(s, Head(fmts)))

\* the formats list of normalize_date
NormalizerDateFormats ==
    <<Fmt_Ymd_dash, Fmt_mdY_slash, Fmt_dmY_slash, Fmt_Ymd_slash,
      Fmt_mdY_dash, Fmt_dmY_dash, Fmt_Ymd_compact, Fmt_BdY, Fmt_bdY>>

\* normalize_date trying the day-first patterns before the month-first ones
normalize_date_day_first(value) ==
    LET Parsed(s) ==
            IF Lower(s) \in FieldNullLike THEN None
            ELSE FirstFormat(s, <<Fmt_Ymd_dash, Fmt_dmY_slash, Fmt_mdY_slash,
                                  Fmt_Ymd_slash, Fmt_dmY_dash, Fmt_mdY_dash,
                                  Fmt_Ymd_compact, Fmt_BdY, Fmt_bdY>>)
    IN IF IsNone(value) THEN None
       ELSE IF value.t = "date" THEN value
       ELSE Parsed(Strip(PyStr(value)))

\* normalize_date(value)
normalize_date(value) ==
    LET Parsed(s) == IF Lower(s) \in FieldNullLike THEN None
                     ELSE FirstFormat(s, NormalizerDateFormats)
    IN IF IsNone(value) THEN None
       ELSE IF value.t = "date" THEN value
       ELSE Parsed(Strip(PyStr(value)))

\* a Python float with value u * 10^(-sc); repr prints the shortest form,
\* which keeps at least one fractional digit
RECURSIVE FloatTrim(_, _)
FloatTrim(u, sc) ==
    IF sc > 1 /\ u % 10 = 0 THEN FloatTrim(u \div 10, sc - 1)
    ELSE [t |-> "float", u |-> u, sc |-> sc]
Float(u, sc) == IF sc = 0 THEN FloatTrim(10 * u, 1) ELSE FloatTrim(u, sc)

RECURSIVE DigitsToNat(_)
DigitsToNat(s) ==
    IF s = <<>> THEN 0
    ELSE 10 * DigitsToNat(SubSeq(s, 1, Len(s) - 1)) + DigitVal(s[Len(s)])

CountChar(s, c) == Cardinality({i \in 1..Len(s) : s[i] = c})

\* the position of the first c in s, or 0
IndexOf(s, c) ==
    IF \E i \in 1..Len(s) : s[i] = c
    THEN CHOOSE i \in 1..Len(s) : s[i] = c /\ \A j \in 1..(i - 1) : s[j] # c
    ELSE 0

\* a plain decimal numeral: [sign] digits [. digits] with at least one digit
\* (sign is the set of sign characters accepted)
IsNumeral(s, signs) ==
    LET body == IF s # <<>> /\ s[1] \in signs THEN Tail(s) ELSE s
    IN /\ \A i \in 1..Len(body) : IsDigit(body[i]) \/ body[i] = "."
       /\ CountChar(body, ".") <= 1
       /\ \E i \in 1..Len(body) : IsDigit(body[i])

NumeralUnscaled(s) ==
    LET Signed(mag) == IF s # <<>> /\ s[1] = "-" THEN 0 - mag ELSE mag
    IN Signed(DigitsToNat(RemoveChar(
           IF s # <<>> /\ s[1] \in {"-", "+"} THEN Tail(s) ELSE s, ".")))

NumeralScale(s) ==
    LET Scale(p) == IF p = 0 THEN 0 ELSE Len(s) - p IN Scale(IndexOf(s, "."))

\* Decimal(s) for a string of digits, '.' and '-'; None where it raises
ParseDecimal(s) ==
    IF IsNumeral(s, {"-"}) THEN Dec(NumeralUnscaled(s), NumeralScale(s))
    ELSE None

\* re.sub(r'[^\d.\-]', '', s)
KeepCostChars(s) == SelectSeq(s, LAMBDA c : IsDigit(c) \/ c \in {".", "-"})

\* normalize_cost removing the minus sign together with the formatting
normalize_cost_dropping_sign(value) ==
    LET Parsed(s) == IF Lower(s) \in FieldNullLike THEN None
                     ELSE ParseDecimal(RemoveChar(KeepCostChars(s), "-"))
    IN IF IsNone(value) THEN None
       ELSE IF value.t = "dec" THEN value
       ELSE IF value.t = "num" THEN Dec(value.n, 0)
       ELSE IF value.t = "float" THEN Dec(value.u, value.sc)
       ELSE IF value.t = "bool" THEN Raise
       ELSE Parsed(Strip(PyStr(value)))

\* normalize_cost(value)
normalize_cost(value) ==
    LET Parsed(s) == IF Lower(s) \in FieldNullLike THEN None
                     ELSE ParseDecimal(KeepCostChars(s))
    IN IF IsNone(value) THEN None
       ELSE IF value.t = "dec" THEN value
       ELSE IF value.t = "num" THEN Dec(value.n, 0)
       ELSE IF value.t = "float" THEN Dec(value.u, value.sc)
       ELSE IF value.t = "bool" THEN Raise
       ELSE Parsed(Strip(PyStr(value)))

RecordFields ==
    {"component", "system", "failure_type", "maint_action", "priority",
     "status", "start_date", "end_date", "cost_estimate", "summary_notes"}

\* normalize_record(record); an exception in a field normalizer propagates
normalize_record(record) ==
    LET Result(out) == IF out.cost_estimate = Raise THEN Raise ELSE out
    IN Result(
         [component |-> normalize_string(Get(record, "component")),
          system |-> normalize_string(Get(record, "system")),
          failure_type |-> normalize_string(Get(record, "failure_type")),
          maint_action |-> normalize_string(Get(record, "maint_action")),
          priority |-> normalize_priority(Get(record, "priority")),
          status |-> normalize_status(
                        IF "status" \in DOMAIN record
                        THEN record["status"] ELSE Str(S_open)),
          start_date |-> normalize_date(Get(record, "start_date")),
          end_date |-> normalize_date(Get(record, "end_date")),
          cost_estimate |-> normalize_cost(Get(record, "cost_estimate")),
          summary_notes |-> normalize_string(Get(record, "summary_notes"))])

\* ------------------------------------------------------------------------
\* llm/extractor.py : LLMExtractor field cleaners
\* ------------------------------------------------------------------------
\* _clean_string(value)
clean_string(value) ==
    LET Kept(s) == IF s # <<>> /\ Lower(s) # S_null THEN Str(s) ELSE None
    IN IF IsNone(value) THEN None ELSE Kept(Strip(PyStr(value)))

\* LLMExtractor._normalize_priority(value)
extractor_normalize_priority(value) ==
    LET Mapped(v) ==
            IF v \in {S_high, <<"c","r","i","t","i","c","a","l">>, <<"u","r","g","e","n","t">>, <<"1">>, <<"p","1">>}
            THEN Str(S_high)
            ELSE IF v \in {S_medium, <<"m","o","d","e","r","a","t","e">>, <<"n","o","r","m","a","l">>, <<"2">>, <<"p","2">>}
            THEN Str(S_medium)
            ELSE IF v \in {S_low, <<"m","i","n","o","r">>, <<"r","o","u","t","i","n","e">>, <<"3">>, <<"p","3">>}
            THEN Str(S_low)
            ELSE IF v # S_null THEN Str(v) ELSE None
    IN IF ~Truthy(value) THEN None
       ELSE Mapped(Strip(Lower(PyStr(value))))

\* re.match(r'^\d{4}-\d{2}-\d{2}$', s)
LooksIso(s) ==
    /\ Len(s) = 10
    /\ AllDigits(s, 1, 4) /\ s[5] = "-" /\ AllDigits(s, 6, 2)
    /\ s[8] = "-" /\ AllDigits(s, 9, 2)

\* the formats list of LLMExtractor._parse_date
ExtractorDateFormats ==
    <<Fmt_mdY_slash, Fmt_dmY_slash, Fmt_Ymd_slash, Fmt_mdY_dash>>

\* LLMExtractor._parse_date(value): a 'YYYY-MM-DD' string or None
\* (strftime is modelled for years of four digits)
extractor_parse_date(value) ==
    LET Formatted(d) == IF IsNone(d) THEN None ELSE Str(IsoFormat(d))
        Parsed(s) ==
            IF Lower(s) = S_null THEN None
            ELSE IF LooksIso(s) THEN Str(s)
            ELSE Formatted(FirstFormat(s, ExtractorDateFormats))
    IN IF ~Truthy(value) THEN None ELSE Parsed(Strip(PyStr(value)))

\* float(s) for a str: plain signed numerals are modelled; every other
\* string of the model's inputs raises ValueError (None here)
ParseFloat(s0) ==
    LET Parsed(s) == IF IsNumeral(s, {"-", "+"})
                     THEN Float(NumeralUnscaled(s), NumeralScale(s))
                     ELSE None
    IN Parsed(Strip(s0))

\* LLMExtractor._parse_number(value)
parse_number(value) ==
    LET Parsed(s) == IF Lower(s) = S_null THEN None ELSE ParseFloat(s)
    IN IF IsNone(value) THEN None
       ELSE IF value.t = "num" THEN Float(value.n, 0)
       ELSE IF value.t = "float" THEN value
       ELSE IF value.t = "bool" THEN Float(IF value.b THEN 1 ELSE 0, 0)
       ELSE Parsed(Strip(RemoveChar(RemoveChar(PyStr(value), "$"), ",")))

\* the clean_record built by _validate_records from one dict
clean_record(d) ==
    [component |-> clean_string(Get(d, "component")),
     system |-> clean_string(Get(d, "system")),
     failure_type |-> clean_string(Get(d, "failure_type")),
     maint_action |-> clean_string(Get(d, "maint_action")),
     priority |-> extractor_normalize_priority(Get(d, "priority")),
     start_date |-> extractor_parse_date(Get(d, "start_date")),
     end_date |-> extractor_parse_date(Get(d, "end_date")),
     cost_estimate |-> parse_number(Get(d, "cost_estimate")),
     summary_notes |-> clean_string(Get(d, "summary_notes"))]

RECURSIVE validate_loop(_)
validate_loop(elems) ==
    LET Kept(c) == IF Truthy(c.component) \/ Truthy(c.maint_action)
                   THEN <<c>> ELSE <<>>
    IN IF elems = <<>> THEN <<>>
       ELSE Kept(clean_record(Head(elems).d)) \o validate_loop(Tail(elems))

\* _validate_records(records): the list of clean records, or Raise when an
\* element is not a dict (record.get raises AttributeError)
validate_records(elems) ==
    IF \E i \in 1..Len(elems) : elems[i].t # "dict" THEN Raise
    ELSE Ok(validate_loop(elems))

\* ------------------------------------------------------------------------
\* llm/client.py : LLMClient
\* A response text is represented by what the three parse attempts of
\* _parse_json_response find in it:
\*   whole : json.loads(text)
\*   fence : json.loads of the fenced code block's contents
\*   span  : json.loads of the first '[' ... last ']' span
\* each a JSON value, Undecodable (JSONDecodeError) or, for fence and span,
\* Absent (re.search found nothing).
\* ------------------------------------------------------------------------
Undecodable == [t |-> "undecodable"]
Absent == [t |-> "absent"]

\* generate() returned '' (any client failure) or no content
RespEmpty == [empty |-> TRUE, whole |-> Undecodable, fence |-> Absent,
              span |-> Absent]
\* the text is exactly the JSON value j
RespDirect(j) ==
    [empty |-> FALSE, whole |-> j, fence |-> Absent,
     span |-> IF j.t = "list" THEN j ELSE Absent]
\* prose around a fenced block holding the JSON value j
RespFenced(j) ==
    [empty |-> FALSE, whole |-> Undecodable, fence |-> j,
     span |-> IF j.t = "list" THEN j ELSE Absent]
\* prose around a fenced block that does not decode
RespFencedBad ==
    [empty |-> FALSE, whole |-> Undecodable, fence |-> Undecodable,
     span |-> Undecodable]
\* prose around a bare JSON array j
RespSpan(j) ==
    [empty |-> FALSE, whole |-> Undecodable, fence |-> Absent, span |-> j]
\* prose with no JSON in it
RespProse ==
    [empty |-> FALSE, whole |-> Undecodable, fence |-> Absent,
     span |-> Absent]

\* the "no result" of the client (Python None)
NoResult == [t |-> "noresult"]

\* _parse_json_response(text): the element sequence of the list returned,
\* wrapped in Ok, or NoResult
parse_json_response(resp) ==
    IF resp.whole.t = "list" THEN Ok(resp.whole.e)
    ELSE IF resp.whole.t = "dict" THEN Ok(<<resp.whole>>)
    ELSE IF resp.fence.t = "list" THEN Ok(resp.fence.e)
    ELSE IF resp.fence.t = "dict" THEN Ok(<<resp.fence>>)
    ELSE IF resp.span.t = "list" THEN Ok(resp.span.e)
    ELSE NoResult

\* extract_json(prompt, system_prompt)
extract_json(resp) ==
    IF resp.empty THEN NoResult ELSE parse_json_response(resp)

\* ------------------------------------------------------------------------
\* llm/extractor.py : the regex fallback and extract_records
\* A document text is represented by what the regular expressions of
\* _regex_extract find in it:
\*   components : re.findall of the two component patterns, in order
\*   actions    : re.findall of the two action patterns, in order
\*   priority   : group(1) of the first priority pattern that matches, or None
\*   cost       : group(0) of the first cost pattern that matches, or None
\* ------------------------------------------------------------------------
EmptyText == [components |-> <<>>, actions |-> <<>>, priority |-> None,
              cost |-> None]

Max(a, b) == IF a >= b THEN a ELSE b
Min(a, b) == IF a <= b THEN a ELSE b

RegexRecordLimit == 10

\* the record built for index i (0-based in the code, 1-based here)
regex_record(text, i) ==
    [component |-> IF i <= Len(text.components)
                   THEN Str(text.components[i]) ELSE None,
     maint_action |-> IF i <= Len(text.actions)
                      THEN Str(text.actions[i]) ELSE None,
     priority |-> IF IsNone(text.priority) THEN None
                  ELSE Str(Lower(text.priority.s)),
     system |-> None,
     failure_type |-> None,
     start_date |-> None,
     end_date |-> None,
     cost_estimate |->
         IF IsNone(text.cost) THEN None
         ELSE ParseFloat(RemoveChar(RemoveChar(text.cost.s, "$"), ",")),
     summary_notes |-> None]

\* _regex_extract without the limit of line 106
regex_extract_uncapped(text) ==
    IF text.components # <<>> \/ text.actions # <<>>
    THEN LET count == Max(Max(Len(text.components), Len(text.actions)), 1)
         IN [i \in 1..count |-> regex_record(text, i)]
    ELSE <<>>

\* _regex_extract(text)
regex_extract(text) ==
    IF text.components # <<>> \/ text.actions # <<>>
    THEN LET count == Max(Max(Len(text.components), Len(text.actions)), 1)
         IN [i \in 1..Min(count, RegexRecordLimit) |-> regex_record(text, i)]
    ELSE <<>>

\* extract_records falling back only when the client gave no list at all
extract_records_keeping_empty_list(text, resp) ==
    LET Returned(records) ==
            IF records # NoResult
            THEN validate_records(records.v)
            ELSE Ok(regex_extract(text))
    IN Returned(extract_json(resp))

\* extract_records(text) with the model's response resp: Ok(list) or Raise
extract_records(text, resp) ==
    LET Returned(records) ==
            IF records # NoResult /\ records.v # <<>>
            THEN validate_records(records.v)
            ELSE Ok(regex_extract(text))
    IN Returned(extract_json(resp))

\* which path extract_records took: "llm" or "regex"
extract_path(resp) ==
    LET Path(records) ==
            IF records # NoResult /\ records.v # <<>> THEN "llm" ELSE "regex"
    IN Path(extract_json(resp))

\* ------------------------------------------------------------------------
\* services/anomaly_detector.py : AnomalyDetector
\* An anomaly is represented by its anomaly_type, severity and field_name;
\* the description, field_value and suggested_fix texts are not modelled.
\* ------------------------------------------------------------------------
COST_WARNING_THRESHOLD == 100000
COST_ERROR_THRESHOLD == 1000000
DURATION_LIMIT_DAYS == 365

Anomaly(type, severity, field) ==
    [anomaly_type |-> type, severity |-> severity, field_name |-> field]

\* _check_missing_fields reporting a field only when it is None
check_missing_fields_none_only(record) ==
    (IF IsNone(Get(record, "component"))
     THEN <<Anomaly("missing_field", "high", "component")>> ELSE <<>>)
    \o (IF IsNone(Get(record, "priority"))
        THEN <<Anomaly("missing_field", "medium", "priority")>> ELSE <<>>)
    \o (IF IsNone(Get(record, "maint_action"))
        THEN <<Anomaly("missing_field", "medium", "maint_action")>> ELSE <<>>)

\* _check_missing_fields(record)
check_missing_fields(record) ==
    (IF ~Truthy(Get(record, "component"))
     THEN <<Anomaly("missing_field", "high", "component")>> ELSE <<>>)
    \o (IF ~Truthy(Get(record, "priority"))
        THEN <<Anomaly("missing_field", "medium", "priority")>> ELSE <<>>)
    \o (IF ~Truthy(Get(record, "maint_action"))
        THEN <<Anomaly("missing_field", "medium", "maint_action")>> ELSE <<>>)

RECURSIVE DaysBeforeMonth(_, _)
DaysBeforeMonth(y, m) ==
    IF m = 1 THEN 0 ELSE DaysBeforeMonth(y, m - 1) + DaysInMonth(y, m - 1)

\* date.toordinal()
Ordinal(d) ==
    LET y1 == d.y - 1
    IN 365 * y1 + (y1 \div 4) - (y1 \div 100) + (y1 \div 400)
       + DaysBeforeMonth(d.y, d.m) + d.d

\* date.fromisoformat(s) for 'YYYY-MM-DD'; None where it raises
FromIsoFormat(s) ==
    LET Valid(y, m, d) ==
            IF y >= 1 /\ m \in 1..12 /\ d >= 1 /\ d <= DaysInMonth(y, m)
            THEN Date(y, m, d) ELSE None
    IN IF ~LooksIso(s) THEN None
       ELSE Valid(100 * Num2(s, 1) + Num2(s, 3), Num2(s, 6), Num2(s, 9))

\* _check_dates counting a duration of exactly one year as too long
check_dates_inclusive(record, today) ==
    LET Compared(duration, end) ==
            Ok((IF duration < 0
                THEN <<Anomaly("date_inconsistency", "high", "end_date")>>
                ELSE <<>>)
               \o (IF duration >= DURATION_LIMIT_DAYS
                   THEN <<Anomaly("date_inconsistency", "low", "duration")>>
                   ELSE <<>>)
               \o (IF end > Ordinal(today) + DURATION_LIMIT_DAYS
                   THEN <<Anomaly("date_inconsistency", "medium",
                                  "end_date")>>
                   ELSE <<>>))
        Converted(s1, e1) ==
            IF ~(Truthy(s1) /\ Truthy(e1)) THEN Ok(<<>>)
            ELSE IF s1.t # "date" \/ e1.t # "date" THEN Raise
            ELSE Compared(Ordinal(e1) - Ordinal(s1), Ordinal(e1))
        Given(s0, e0) ==
            IF ~(Truthy(s0) /\ Truthy(e0)) THEN Ok(<<>>)
            ELSE Converted(IF s0.t = "str" THEN FromIsoFormat(s0.s) ELSE s0,
                           IF e0.t = "str" THEN FromIsoFormat(e0.s) ELSE e0)
    IN Given(Get(record, "start_date"), Get(record, "end_date"))

\* _check_dates(record), with date.today() = today: a list of anomalies,
\* or Raise where a value that is neither a str nor a date is compared
check_dates(record, today) ==
    LET Compared(duration, end) ==
            Ok((IF duration < 0
                THEN <<Anomaly("date_inconsistency", "high", "end_date")>>
                ELSE <<>>)
               \o (IF duration > DURATION_LIMIT_DAYS
                   THEN <<Anomaly("date_inconsistency", "low", "duration")>>
                   ELSE <<>>)
               \o (IF end > Ordinal(today) + DURATION_LIMIT_DAYS
                   THEN <<Anomaly("date_inconsistency", "medium",
                                  "end_date")>>
                   ELSE <<>>))
        Converted(s1, e1) ==
            IF ~(Truthy(s1) /\ Truthy(e1)) THEN Ok(<<>>)
            ELSE IF s1.t # "date" \/ e1.t # "date" THEN Raise
            ELSE Compared(Ordinal(e1) - Ordinal(s1), Ordinal(e1))
        Given(s0, e0) ==
            IF ~(Truthy(s0) /\ Truthy(e0)) THEN Ok(<<>>)
            ELSE Converted(IF s0.t = "str" THEN FromIsoFormat(s0.s) ELSE s0,
                           IF e0.t = "str" THEN FromIsoFormat(e0.s) ELSE e0)
    IN Given(Get(record, "start_date"), Get(record, "end_date"))

\* float(cost) as a scaled integer [u, sc], or None where float() raises
CostFloat(cost) ==
    LET Scaled(f) == IF IsNone(f) THEN None ELSE [u |-> f.u, sc |-> f.sc]
    IN CASE cost.t \in {"dec", "float"} -> [u |-> cost.u, sc |-> cost.sc]
         [] cost.t = "num" -> [u |-> cost.n, sc |-> 0]
         [] cost.t = "bool" -> [u |-> IF cost.b THEN 1 ELSE 0, sc |-> 0]
         [] cost.t = "str" -> Scaled(ParseFloat(cost.s))
         [] OTHER -> None

\* _check_cost flagging a cost from the threshold itself upwards
check_cost_inclusive(record) ==
    LET Judged(v) ==
            IF v = None
            THEN <<Anomaly("parse_error", "low", "cost_estimate")>>
            ELSE IF v.u < 0
            THEN <<Anomaly("invalid_value", "high", "cost_estimate")>>
            ELSE IF v.u >= COST_ERROR_THRESHOLD * Pow10(v.sc)
            THEN <<Anomaly("extreme_value", "high", "cost_estimate")>>
            ELSE IF v.u >= COST_WARNING_THRESHOLD * Pow10(v.sc)
            THEN <<Anomaly("extreme_value", "medium", "cost_estimate")>>
            ELSE <<>>
        Given(cost) == IF IsNone(cost) THEN <<>> ELSE Judged(CostFloat(cost))
    IN Given(Get(record, "cost_estimate"))

\* _check_cost(record)
check_cost(record) ==
    LET Judged(v) ==
            IF v = None
            THEN <<Anomaly("parse_error", "low", "cost_estimate")>>
            ELSE IF v.u < 0
            THEN <<Anomaly("invalid_value", "high", "cost_estimate")>>
            ELSE IF v.u > COST_ERROR_THRESHOLD * Pow10(v.sc)
            THEN <<Anomaly("extreme_value", "high", "cost_estimate")>>
            ELSE IF v.u > COST_WARNING_THRESHOLD * Pow10(v.sc)
            THEN <<Anomaly("extreme_value", "medium", "cost_estimate")>>
            ELSE <<>>
        Given(cost) == IF IsNone(cost) THEN <<>> ELSE Judged(CostFloat(cost))
    IN Given(Get(record, "cost_estimate"))

\* _check_priority(record)
check_priority(record) ==
    LET Given(priority) ==
            IF Truthy(priority)
               /\ Lower(PyStr(priority)) \notin {S_high, S_medium, S_low}
            THEN <<Anomaly("invalid_value", "low", "priority")>>
            ELSE <<>>
    IN Given(Get(record, "priority"))

\* detect_anomalies applying the priority rule a second time
detect_anomalies_priority_twice(record, today) ==
    LET Collected(dates) ==
            IF dates = Raise THEN Raise
            ELSE Ok(check_missing_fields(record) \o dates.v
                    \o check_cost(record) \o check_priority(record)
                    \o check_priority(record))
    IN Collected(check_dates(record, today))

\* detect_anomalies(record) without known_components / known_systems
detect_anomalies(record, today) ==
    LET Collected(dates) ==
            IF dates = Raise THEN Raise
            ELSE Ok(check_missing_fields(record) \o dates.v
                    \o check_cost(record) \o check_priority(record))
    IN Collected(check_dates(record, today))

\* ------------------------------------------------------------------------
\* ingestion/legacy_converter.py : LegacyConverter
\* ------------------------------------------------------------------------
\* STANDARD_FIELDS, in declaration order: <<field, keywords>>
STANDARD_FIELDS ==
    << <<"component", <<<<"c","o","m","p","o","n","e","n","t">>, <<"c","o","m","p">>, <<"p","a","r","t">>, <<"i","t","e","m">>,
                        <<"e","q","u","i","p","m","e","n","t">>, <<"a","s","s","e","t">>>> >>,
       <<"system", <<<<"s","y","s","t","e","m">>, <<"s","y","s">>, <<"s","u","b","s","y","s","t","e","m">>, <<"c","a","t","e","g","o","r","y">>,
                     <<"t","y","p","e">>>> >>,
       <<"priority", <<<<"p","r","i","o","r","i","t","y">>, <<"p","r","i","o">>, <<"u","r","g","e","n","c","y">>, <<"l","e","v","e","l">>,
                       <<"i","m","p","o","r","t","a","n","c","e">>>> >>,
       <<"maint_action", <<<<"a","c","t","i","o","n">>, <<"m","a","i","n","t","e","n","a","n","c","e">>, <<"m","a","i","n","t">>, <<"w","o","r","k">>,
                           <<"r","e","p","a","i","r">>, <<"t","a","s","k">>, <<"d","e","s","c","r","i","p","t","i","o","n">>>> >>,
       <<"cost_estimate", <<<<"c","o","s","t">>, <<"e","s","t","i","m","a","t","e">>, <<"p","r","i","c","e">>, <<"a","m","o","u","n","t">>,
                            <<"b","u","d","g","e","t">>, <<"e","x","p","e","n","s","e">>>> >>,
       <<"start_date", <<<<"s","t","a","r","t">>, <<"b","e","g","i","n">>, <<"s","t","a","r","t","e","d">>, <<"i","n","i","t","i","a","t","e">>,
                         <<"o","p","e","n","_","d","a","t","e">>>> >>,
       <<"end_date", <<<<"e","n","d">>, <<"c","o","m","p","l","e","t","e">>, <<"f","i","n","i","s","h">>, <<"c","l","o","s","e","d">>,
                       <<"d","u","e">>, <<"t","a","r","g","e","t">>>> >>,
       <<"notes", <<<<"n","o","t","e","s">>, <<"r","e","m","a","r","k","s">>, <<"c","o","m","m","e","n","t","s">>, <<"d","e","t","a","i","l","s">>,
                    <<"i","n","f","o">>, <<"a","d","d","i","t","i","o","n","a","l">>>> >> >>

\* columns_lower = {c.lower().strip(): c for c in columns} as the sequence
\* of its items: a key keeps the position of its first occurrence and the
\* value of its last
RECURSIVE columns_lower_items(_, _)
columns_lower_items(columns, i) ==
    LET Key(j) == Strip(Lower(columns[j]))
        Last(key) == CHOOSE j \in i..Len(columns) :
                         /\ Key(j) = key
                         /\ \A k \in (j + 1)..Len(columns) : Key(k) # key
        Item(key) == IF \A j \in 1..(i - 1) : Key(j) # key
                     THEN << <<key, columns[Last(key)]>> >> ELSE <<>>
    IN IF i > Len(columns) THEN <<>>
       ELSE Item(Key(i)) \o columns_lower_items(columns, i + 1)

\* the first item whose key contains keyword, or 0
first_column_with(items, keyword) ==
    IF \E i \in 1..Len(items) : Contains(items[i][1], keyword)
    THEN CHOOSE i \in 1..Len(items) :
             /\ Contains(items[i][1], keyword)
             /\ \A j \in 1..(i - 1) : ~Contains(items[j][1], keyword)
    ELSE 0

\* the first keyword of keywords that some column contains, or 0
first_keyword_hit(items, keywords) ==
    IF \E k \in 1..Len(keywords) : first_column_with(items, keywords[k]) # 0
    THEN CHOOSE k \in 1..Len(keywords) :
             /\ first_column_with(items, keywords[k]) # 0
             /\ \A j \in 1..(k - 1) : first_column_with(items, keywords[j]) = 0
    ELSE 0

\* _map_columns(columns): a function from the mapped standard fields to the
\* original column names
map_columns(columns) ==
    LET Column(items, kws) ==
            items[first_column_with(items, kws[first_keyword_hit(items, kws)])][2]
        Keywords(name) ==
            STANDARD_FIELDS[CHOOSE f \in 1..Len(STANDARD_FIELDS) :
                                STANDARD_FIELDS[f][1] = name][2]
        Mapping(items) ==
            [name \in {STANDARD_FIELDS[f][1] :
                          f \in {g \in 1..Len(STANDARD_FIELDS) :
                                    first_keyword_hit(items,
                                        STANDARD_FIELDS[g][2]) # 0}} |->
                Column(items, Keywords(name))]
    IN Mapping(columns_lower_items(columns, 1))

\* row[source_col]: the cell of the row under the column named col
Cell(columns, row, col) ==
    row[CHOOSE i \in 1..Len(columns) : columns[i] = col]

\* _extract_record_data(row, mappings); a NaN cell is None
extract_record_data(columns, row, mappings) ==
    [f \in {g \in DOMAIN mappings :
               ~IsNone(Cell(columns, row, mappings[g]))} |->
        Str(Strip(PyStr(Cell(columns, row, mappings[f]))))]

\* _normalize_priority with a table whose numerals count from zero
legacy_normalize_priority_zero_based(value) ==
    LET Mapped(v) ==
            IF v \in {<<"0">>, S_high, <<"c","r","i","t","i","c","a","l">>, <<"u","r","g","e","n","t">>, <<"p","0">>}
            THEN Str(S_high)
            ELSE IF v \in {<<"1">>, S_medium, <<"m","o","d","e","r","a","t","e">>, <<"n","o","r","m","a","l">>, <<"p","1">>}
            THEN Str(S_medium)
            ELSE IF v \in {<<"2">>, S_low, <<"m","i","n","o","r">>, <<"r","o","u","t","i","n","e">>, <<"p","2">>}
            THEN Str(S_low)
            ELSE value
    IN IF ~Truthy(value) THEN None ELSE Mapped(Strip(Lower(value.s)))

\* LegacyConverter._normalize_priority(value)
legacy_normalize_priority(value) ==
    LET Mapped(v) ==
            IF v \in {<<"1">>, S_high, <<"c","r","i","t","i","c","a","l">>, <<"u","r","g","e","n","t">>, <<"p","1">>}
            THEN Str(S_high)
            ELSE IF v \in {<<"2">>, S_medium, <<"m","o","d","e","r","a","t","e">>, <<"n","o","r","m","a","l">>, <<"p","2">>}
            THEN Str(S_medium)
            ELSE IF v \in {<<"3">>, S_low, <<"m","i","n","o","r">>, <<"r","o","u","t","i","n","e">>, <<"p","3">>}
            THEN Str(S_low)
            ELSE value
    IN IF ~Truthy(value) THEN None ELSE Mapped(Strip(Lower(value.s)))

\* re.sub(r'[$,\s]', '', s)
StripCostFormatting(s) ==
    SelectSeq(s, LAMBDA c : ~(c \in {"$", ","} \/ IsSpace(c)))

\* LegacyConverter._parse_cost(value): a float or None
legacy_parse_cost(value) ==
    IF ~Truthy(value) THEN None
    ELSE ParseFloat(StripCostFormatting(PyStr(value)))

\* the formats list of LegacyConverter._parse_date
LegacyDateFormats ==
    <<Fmt_Ymd_dash, Fmt_mdY_slash, Fmt_dmY_slash, Fmt_Ymd_slash,
      Fmt_mdY_dash, Fmt_dmY_dash>>

\* LegacyConverter._parse_date(value): a date or None
legacy_parse_date(value) ==
    IF ~Truthy(value) THEN None
    ELSE FirstFormat(Strip(PyStr(value)), LegacyDateFormats)

LEGACY_COST_LIMIT == 1000000

\* an issue of _validate_record: its type, severity and field
Issue(type, severity, field) ==
    [anomaly_type |-> type, severity |-> severity, field_name |-> field]

\* _validate_record(data)
legacy_validate_record(data) ==
    LET Dates(start, end) ==
            IF /\ Truthy(Get(data, "start_date"))
               /\ Truthy(Get(data, "end_date"))
               /\ ~IsNone(start) /\ ~IsNone(end)
               /\ Ordinal(start) > Ordinal(end)
            THEN <<Issue("date_inconsistency", "high", "start_date,end_date")>>
            ELSE <<>>
        Cost(cost) ==
            IF /\ Truthy(Get(data, "cost_estimate"))
               /\ ~IsNone(cost) /\ cost.u # 0
               /\ cost.u > LEGACY_COST_LIMIT * Pow10(cost.sc)
            THEN <<Issue("extreme_value", "medium", "cost_estimate")>>
            ELSE <<>>
    IN (IF ~Truthy(Get(data, "component"))
        THEN <<Issue("missing_field", "high", "component")>> ELSE <<>>)
       \o (IF ~Truthy(Get(data, "priority"))
           THEN <<Issue("missing_field", "medium", "priority")>> ELSE <<>>)
       \o Dates(legacy_parse_date(Get(data, "start_date")),
                legacy_parse_date(Get(data, "end_date")))
       \o Cost(legacy_parse_cost(Get(data, "cost_estimate")))

\* the row built by convert() with the confidence of a clean row for every
\* row
legacy_record_always_confident(doc, data) ==
    LET Row(issues) ==
            [document_id |-> doc,
             component |-> Get(data, "component"),
             system |-> Get(data, "system"),
             failure_type |-> None,
             maint_action |-> Get(data, "maint_action"),
             priority |-> legacy_normalize_priority(Get(data, "priority")),
             start_date |-> legacy_parse_date(Get(data, "start_date")),
             end_date |-> legacy_parse_date(Get(data, "end_date")),
             cost_estimate |-> legacy_parse_cost(Get(data, "cost_estimate")),
             summary_notes |-> Get(data, "notes"),
             status |-> Str(S_open),
             status_updates |-> <<>>,
             extraction_method |-> "legacy_conversion",
             confidence_score |-> 85,
             anomalies |-> issues,
             run |-> 0,
             origin |-> "legacy",
             raw |-> data]
    IN Row(legacy_validate_record(data))

\* the ExtractedRecord row built by convert() for one spreadsheet row
legacy_record(doc, data) ==
    LET Row(issues) ==
            [document_id |-> doc,
             component |-> Get(data, "component"),
             system |-> Get(data, "system"),
             failure_type |-> None,
             maint_action |-> Get(data, "maint_action"),
             priority |-> legacy_normalize_priority(Get(data, "priority")),
             start_date |-> legacy_parse_date(Get(data, "start_date")),
             end_date |-> legacy_parse_date(Get(data, "end_date")),
             cost_estimate |-> legacy_parse_cost(Get(data, "cost_estimate")),
             summary_notes |-> Get(data, "notes"),
             status |-> Str(S_open),
             status_updates |-> <<>>,
             extraction_method |-> "legacy_conversion",
             confidence_score |-> IF issues = <<>> THEN 85 ELSE 60,
             anomalies |-> issues,
             \* ghost fields
             run |-> 0,
             origin |-> "legacy",
             raw |-> data]
    IN Row(legacy_validate_record(data))

\* the rows of ExtractedRecord that convert() adds for a table
legacy_records(doc, table) ==
    LET Rows(mappings) ==
            [i \in 1..Len(table.rows) |->
                legacy_record(doc, extract_record_data(table.columns,
                                                       table.rows[i],
                                                       mappings))]
    IN Rows(map_columns(table.columns))

\* ------------------------------------------------------------------------
\* The database, the ingest trigger and the background pipeline run
\* ------------------------------------------------------------------------
VARIABLES
    docs,       \* committed rows of the documents table, by document id
    records,    \* committed rows of extracted_records, each with its anomalies
    handlers,   \* one ingest_document request per caller: position and locals
    runs,       \* the background tasks run_ingestion_pipeline, by run id
    faults,     \* database faults injected so far
    fn,         \* the pure-function test bench: operation, input, outputs
    conversions \* the results returned by legacy conversions, in order

vars == <<docs, records, handlers, runs, faults, fn, conversions>>

MaxDocs == 1
MaxRuns == 2
MaxFaults == 1

Callers == {"c1", "c2"}
DocIds == 1..MaxDocs
RunIds == 1..MaxRuns
\* record ids named by status requests: the rows that exist and one more
RecordIds == 1..(Len(records) + 1)

\* declared types given to uploads (values of file_type_map in upload.py),
\* one for each branch of _extract_text
UploadFileTypes == {"pdf", "csv", "log"}

\* str(e)[:100] keeps at most this many characters
ERROR_MESSAGE_LIMIT == 100

\* processing_status values; an error status carries the kind of the
\* exception and the number of message characters kept
Status(s) == [s |-> s, kind |-> "", n |-> 0]
ErrorStatus(e) ==
    [s |-> "error", kind |-> e.kind, n |-> Min(e.len, ERROR_MESSAGE_LIMIT)]

\* exceptions: a kind and the length of str(e)
Exc(kind, len) == [kind |-> kind, len |-> len]
NoExc == Exc("", 0)
\* lengths of the messages of environment errors (I/O, database)
EnvMessageLengths == {30, 140}
\* "'int' object has no attribute 'get'"
AttributeErrorExc == Exc("AttributeError", 36)
\* "This Session's transaction has been rolled back due to a previous
\* exception during flush. ..." (sqlalchemy PendingRollbackError)
PendingRollbackExc == Exc("PendingRollbackError", 200)
InvalidOperationExc == Exc("InvalidOperation", 40)
TypeErrorExc == Exc("TypeError", 60)

\* seen: what the handler's tests read from the row it loaded
IdleHandler == [pc |-> "idle", doc |-> 0, seen |-> ""]
FreshRun ==
    [pc |-> "unused", doc |-> 0, sess |-> "active", cands |-> <<>>,
     raws |-> <<>>, origin |-> "", idx |-> 1, pending |-> <<>>,
     exc |-> NoExc, raised |-> "", escaped |-> FALSE,
     final |-> Status(""), ack |-> ""]
\* a task that has returned: its session is closed, its locals are gone
Finished(run) ==
    [FreshRun EXCEPT !.pc = "done", !.doc = run.doc, !.raised = run.raised,
                     !.ack = run.ack]
IdleFn == [op |-> "idle"]

Init ==
    /\ docs = <<>>
    /\ records = <<>>
    /\ handlers = [c \in Callers |-> IdleHandler]
    /\ runs = [r \in RunIds |-> FreshRun]
    /\ faults = 0
    /\ fn = IdleFn
    /\ conversions = <<>>

\* upload.py : upload_file -- a new document row with status 'uploaded'
Upload(ft) ==
    /\ Len(docs) < MaxDocs
    /\ docs' = Append(docs, [file_type |-> ft, status |-> Status("uploaded"),
                             processed |-> FALSE])
    /\ UNCHANGED <<records, handlers, runs, faults, fn, conversions>>

\* ---- sample spreadsheets given to the legacy conversion ----
\* a row without component and action beside a complete one; an unknown
\* priority word
LegacyTableA ==
    [columns |-> <<<<"P","a","r","t"," ","N","o">>, <<" ","U","r","g","e","n","c","y">>, <<"W","o","r","k"," ","D","o","n","e">>>>,
     rows |-> << <<Str(<<"P","u","m","p">>), Num(1), Str(<<"f","i","x">>)>>,
                 <<None, Str(<<"w","e","i","r","d">>), None>> >>]
\* reversed dates and a cost above the limit
LegacyTableB ==
    [columns |-> <<<<"E","q","u","i","p","m","e","n","t">>, <<"E","s","t"," ","C","o","s","t">>, <<"S","t","a","r","t">>, <<"E","n","d"," ","D","a","t","e">>>>,
     rows |-> << <<Str(<<"V","a","l","v","e">>), Str(<<"$","2",",","0","0","0",",","0","0","0">>),
                   Str(<<"0","1","/","2","0","/","2","0","2","4">>), Str(<<"0","1","/","1","5","/","2","0","2","4">>)>> >>]
LegacyTables == {LegacyTableA, LegacyTableB}

\* legacy_converter.py : convert, lines 38-121 -- a new document row with
\* type 'legacy_excel' and status 'converted', one record for every row of
\* the sheet with its issues as anomalies, all committed together
LegacyConvert(table) ==
    /\ Len(docs) < MaxDocs
    /\ docs' = Append(docs, [file_type |-> "legacy_excel",
                             status |-> Status("converted"),
                             processed |-> TRUE])
    /\ \E new \in {legacy_records(Len(docs) + 1, table)} :
          /\ records' = records \o new
          /\ conversions' = Append(conversions,
                 [document_id |-> Len(docs) + 1,
                  records_created |-> Len(new),
                  records_with_issues |->
                      Cardinality({i \in 1..Len(new) :
                                      new[i].anomalies # <<>>}),
                  column_mappings |-> map_columns(table.columns),
                  \* ghost: the number of rows of the sheet
                  rows |-> Len(table.rows)])
    /\ UNCHANGED <<handlers, runs, faults, fn>>

\* ingest.py : ingest_document, line 27 -- the SELECT of the document row.
\* The handler reads the row and later writes it in two separate database
\* round trips; requests served by other workers can commit in between.
TriggerQuery(c, d) ==
    /\ handlers[c].pc = "idle"
    /\ handlers' = [handlers EXCEPT ![c] =
           [pc |-> "read", doc |-> d,
            seen |-> IF d > Len(docs) THEN "missing"
                     ELSE IF docs[d].status.s = "processing"
                     THEN "processing" ELSE "other"]]
    /\ UNCHANGED <<docs, records, runs, faults, fn, conversions>>

FreeRun == CHOOSE r \in RunIds :
               runs[r].pc = "unused" /\ \A q \in 1..(r - 1) : runs[q].pc # "unused"

\* ingest.py : ingest_document, lines 29-46 -- 404, 400, or set the status
\* to 'processing', commit, queue the background task and acknowledge
TriggerDecide(c) ==
    LET h == handlers[c]
    IN /\ h.pc = "read"
       /\ IF h.seen = "missing"
          THEN \* HTTP 404
               /\ handlers' = [handlers EXCEPT ![c] = IdleHandler]
               /\ UNCHANGED <<docs, runs>>
          ELSE IF h.seen = "processing"
          THEN \* HTTP 400
               /\ handlers' = [handlers EXCEPT ![c] = IdleHandler]
               /\ UNCHANGED <<docs, runs>>
          ELSE /\ \E r \in RunIds : runs[r].pc = "unused"
               /\ docs' = [docs EXCEPT ![h.doc].status = Status("processing")]
               /\ runs' = [runs EXCEPT ![FreeRun] =
                      [FreshRun EXCEPT !.pc = "queued", !.doc = h.doc,
                                       !.ack = "Ingestion started"]]
               /\ handlers' = [handlers EXCEPT ![c] = IdleHandler]
       /\ UNCHANGED <<records, faults, fn, conversions>>

\* ---- sample inputs of the pipeline ----
GoodObj ==
    Obj([component |-> Str(<<"P","u","m","p">>), maint_action |-> Str(<<"f","i","x">>),
         priority |-> Str(<<"P","1">>), start_date |-> Str(<<"2","0","2","4","-","0","1","-","2","0">>),
         end_date |-> Str(<<"0","1","/","1","5","/","2","0","2","4">>), cost_estimate |-> Num(2500)])
\* a null-like component that _clean_string keeps and normalize_string drops
NullLikeObj == Obj([component |-> Str(<<"N","/","A">>), priority |-> Str(<<"l","o","w">>)])
\* both identifying fields are JSON null
EmptyObj == Obj([component |-> None, maint_action |-> Str(<<"n","u","l","l">>)])
\* a cost and a date that do not parse
UnparsableObj ==
    Obj([component |-> Str(<<"V","a","l","v","e">>), cost_estimate |-> Str(<<"a","b","c">>),
         start_date |-> Str(<<"s","o","o","n">>)])

PipelineResponses ==
    {RespEmpty, RespProse, RespDirect(JList(<<>>)), RespDirect(Num(42)),
     RespSpan(JList(<<NullLikeObj, GoodObj>>)), RespFenced(UnparsableObj),
     RespDirect(JList(<<EmptyObj>>)), RespDirect(JList(<<Num(1), Num(2)>>))}

PipelineTexts ==
    {EmptyText,
     [components |-> <<<<"P","u","m","p">>>>, actions |-> <<<<"f","i","x">>>>,
      priority |-> Str(<<"H","i","g","h">>), cost |-> Str(<<"$","1",",","0","0","0">>)],
     [components |-> <<<<"n","o","n","e">>>>, actions |-> <<>>,
      priority |-> None, cost |-> Str(<<"c","o","s","t",":"," ","5","0","0">>)]}

\* values of date.today() during a run
Todays == {Date(2024, 6, 1), Date(2026, 11, 2)}

\* ---- ghost: the raw candidates that reach the record loop ----
KeptByValidation(e) ==
    \/ Truthy(clean_string(Get(e.d, "component")))
    \/ Truthy(clean_string(Get(e.d, "maint_action")))

RawCandidates(text, resp) ==
    LET Dicts(kept) == [i \in 1..Len(kept) |-> kept[i].d]
        Raw(elems) ==
            IF \E i \in 1..Len(elems) : elems[i].t # "dict" THEN <<>>
            ELSE Dicts(SelectSeq(elems, KeptByValidation))
    IN IF extract_path(resp) = "llm" THEN Raw(extract_json(resp).v)
       ELSE regex_extract(text)

\* pipeline.py : _extract_text, lines 117-132 -- the outcomes of extracting
\* the text of a document of the declared type: a text, or an exception of
\* the reader with a message of some length.  A declared type outside the
\* five dispatched ones falls through to return ''.
SupportedFileTypes == {"pdf", "excel", "csv", "text", "log"}
TextOk(text) == [ok |-> TRUE, text |-> text, len |-> 0]
TextError(n) == [ok |-> FALSE, text |-> EmptyText, len |-> n]

extract_text_rejecting(file_type) ==
    IF file_type \in SupportedFileTypes
    THEN {TextOk(t) : t \in PipelineTexts}
         \cup {TextError(n) : n \in EnvMessageLengths}
    ELSE {TextError(n) : n \in EnvMessageLengths}

extract_text(file_type) ==
    IF file_type \in SupportedFileTypes
    THEN {TextOk(t) : t \in PipelineTexts}
         \cup {TextError(n) : n \in EnvMessageLengths}
    ELSE {TextOk(EmptyText)}

\* ingest.py : run_ingestion_pipeline, lines 53-56, and pipeline.py :
\* process_document, lines 50-55 -- open a session and load the document
RunStart(r) ==
    /\ runs[r].pc = "queued"
    /\ runs' = [runs EXCEPT ![r] =
                  IF runs[r].doc <= Len(docs)
                  THEN [runs[r] EXCEPT !.pc = "extract"]
                  ELSE Finished(runs[r])]
    /\ UNCHANGED <<docs, records, handlers, faults, fn, conversions>>

\* process_document, lines 57-63 -- extract the raw text, then the candidate
\* records; either step may raise
RunExtract(r) ==
    /\ runs[r].pc = "extract"
    /\ \E got \in extract_text(docs[runs[r].doc].file_type) :
          IF ~got.ok
          THEN runs' = [runs EXCEPT ![r].pc = "except",
                                    ![r].exc = Exc("IOError", got.len),
                                    ![r].raised = "IOError"]
          ELSE \E resp \in PipelineResponses :
               \E out \in {extract_records(got.text, resp)} :
                  IF out = Raise
                  THEN runs' = [runs EXCEPT ![r].pc = "except",
                                            ![r].exc = AttributeErrorExc,
                                            ![r].raised = "AttributeError"]
                  ELSE runs' = [runs EXCEPT
                           ![r].pc = "loop",
                           ![r].cands = out.v,
                           ![r].raws = RawCandidates(got.text, resp),
                           ![r].origin = extract_path(resp),
                           ![r].idx = 1]
    /\ UNCHANGED <<docs, records, handlers, faults, fn, conversions>>

\* the ExtractedRecord row built at lines 71-85 of process_document
pipeline_record(r, normalized, anomalies) ==
    [document_id |-> runs[r].doc,
     component |-> normalized.component,
     system |-> normalized.system,
     failure_type |-> normalized.failure_type,
     maint_action |-> normalized.maint_action,
     priority |-> normalized.priority,
     start_date |-> normalized.start_date,
     end_date |-> normalized.end_date,
     cost_estimate |-> normalized.cost_estimate,
     summary_notes |-> normalized.summary_notes,
     status |-> Str(S_open),
     status_updates |-> <<>>,
     extraction_method |-> IF runs[r].cands # <<>> THEN "llm" ELSE "regex",
     confidence_score |-> 85,
     anomalies |-> anomalies,
     \* ghost fields
     run |-> r,
     origin |-> runs[r].origin,
     raw |-> runs[r].raws[runs[r].idx]]

\* process_document, lines 66-103 -- one iteration of the record loop:
\* normalize, add and flush the record, detect and add its anomalies
RunRecord(r) ==
    /\ runs[r].pc = "loop"
    /\ runs[r].idx <= Len(runs[r].cands)
    /\ \E normalized \in {normalize_record(runs[r].cands[runs[r].idx])} :
          IF normalized = Raise
          THEN /\ runs' = [runs EXCEPT ![r].pc = "except",
                                       ![r].exc = InvalidOperationExc,
                                       ![r].raised = InvalidOperationExc.kind]
               /\ UNCHANGED faults
          ELSE \/ \* the flush fails
                  /\ faults < MaxFaults
                  /\ faults' = faults + 1
                  /\ \E n \in EnvMessageLengths :
                        runs' = [runs EXCEPT ![r].pc = "except",
                                             ![r].sess = "deactive",
                                             ![r].pending = <<>>,
                                             ![r].exc = Exc("DBError", n),
                                             ![r].raised = "DBError"]
               \/ /\ UNCHANGED faults
                  /\ \E today \in Todays :
                     \E found \in {detect_anomalies(normalized, today)} :
                        IF found = Raise
                        THEN runs' = [runs EXCEPT
                                 ![r].pc = "except",
                                 ![r].pending = Append(runs[r].pending,
                                     pipeline_record(r, normalized, <<>>)),
                                 ![r].exc = TypeErrorExc,
                                 ![r].raised = TypeErrorExc.kind]
                        ELSE runs' = [runs EXCEPT
                                 ![r].idx = runs[r].idx + 1,
                                 ![r].pending = Append(runs[r].pending,
                                     pipeline_record(r, normalized,
                                                     found.v))]
    /\ UNCHANGED <<docs, records, handlers, fn, conversions>>

\* RunCommit with a session that commits every flush on its own: the last
\* record of the run is still uncommitted when the status is written
RunCommit_leaving_last(r) ==
    LET run == runs[r]
    IN /\ run.pc = "loop"
       /\ run.idx > Len(run.cands)
       /\ docs' = [docs EXCEPT ![run.doc].status = Status("complete"),
                               ![run.doc].processed = TRUE]
       /\ records' = records \o SubSeq(run.pending, 1, Len(run.pending) - 1)
       /\ runs' = [runs EXCEPT ![r] =
              [Finished(run) EXCEPT !.final = Status("complete")]]
       /\ UNCHANGED <<faults, handlers, fn, conversions>>

\* RunCommit of an idempotent re-ingest: the rows the document already has
\* are deleted when the new ones are committed
RunCommit_replacing_records(r) ==
    LET run == runs[r]
        kept == SelectSeq(records, LAMBDA x : x.document_id # run.doc)
    IN /\ run.pc = "loop"
       /\ run.idx > Len(run.cands)
       /\ docs' = [docs EXCEPT ![run.doc].status = Status("complete"),
                               ![run.doc].processed = TRUE]
       /\ records' = kept \o run.pending
       /\ runs' = [runs EXCEPT ![r] =
              [Finished(run) EXCEPT !.final = Status("complete")]]
       /\ UNCHANGED <<faults, handlers, fn, conversions>>

\* process_document, lines 105-110 -- mark the document complete and commit
\* the records, the anomalies and the status in one transaction
RunCommit(r) ==
    LET run == runs[r]
    IN /\ run.pc = "loop"
       /\ run.idx > Len(run.cands)
       /\ \/ \* the commit fails; the session rolls the transaction back
             /\ faults < MaxFaults
             /\ faults' = faults + 1
             /\ \E n \in EnvMessageLengths :
                   runs' = [runs EXCEPT ![r].pc = "except",
                                        ![r].pending = <<>>,
                                        ![r].exc = Exc("DBError", n),
                                        ![r].raised = "DBError"]
             /\ UNCHANGED <<docs, records>>
          \/ /\ docs' = [docs EXCEPT ![run.doc].status = Status("complete"),
                                     ![run.doc].processed = TRUE]
             /\ records' = records \o run.pending
             /\ runs' = [runs EXCEPT ![r] =
                    [Finished(run) EXCEPT !.final = Status("complete")]]
             /\ UNCHANGED faults
       /\ UNCHANGED <<handlers, fn, conversions>>

\* process_document, lines 112-115 -- the except block: set the error
\* status, commit, re-raise.  A commit on a session whose flush failed
\* raises PendingRollbackError, because the session was not rolled back.
RunExcept(r) ==
    LET run == runs[r]
    IN /\ run.pc = "except"
       /\ IF run.sess = "deactive"
          THEN /\ runs' = [runs EXCEPT ![r].pc = "outer",
                                       ![r].exc = PendingRollbackExc]
               /\ UNCHANGED <<docs, records, faults>>
          ELSE \/ /\ faults < MaxFaults
                  /\ faults' = faults + 1
                  /\ \E n \in EnvMessageLengths :
                        runs' = [runs EXCEPT ![r].pc = "outer",
                                             ![r].pending = <<>>,
                                             ![r].exc = Exc("DBError", n)]
                  /\ UNCHANGED <<docs, records>>
               \/ /\ docs' = [docs EXCEPT ![run.doc].status =
                                              ErrorStatus(run.exc)]
                  /\ records' = records \o run.pending
                  /\ runs' = [runs EXCEPT ![r].pc = "outer",
                                          ![r].pending = <<>>]
                  /\ UNCHANGED faults
       /\ UNCHANGED <<handlers, fn, conversions>>

\* run_ingestion_pipeline, lines 57-64 -- the handler of the background
\* task: load the document again, set the error status, commit; then close
\* the session.  An exception raised here leaves the task.
RunOuter(r) ==
    LET run == runs[r]
    IN /\ run.pc = "outer"
       /\ IF run.sess = "deactive"
          THEN /\ runs' = [runs EXCEPT ![r] =
                      [Finished(run) EXCEPT !.escaped = TRUE,
                                            !.final = docs[run.doc].status]]
               /\ UNCHANGED <<docs, faults>>
          ELSE \/ /\ faults < MaxFaults
                  /\ faults' = faults + 1
                  /\ runs' = [runs EXCEPT ![r] =
                         [Finished(run) EXCEPT !.escaped = TRUE,
                                               !.final = docs[run.doc].status]]
                  /\ UNCHANGED docs
               \/ /\ docs' = [docs EXCEPT ![run.doc].status =
                                              ErrorStatus(run.exc)]
                  /\ runs' = [runs EXCEPT ![r] =
                         [Finished(run) EXCEPT !.final = ErrorStatus(run.exc)]]
                  /\ UNCHANGED faults
       /\ UNCHANGED <<records, handlers, fn, conversions>>

\* ---- api/routes/status.py ----
\* VALID_STATUSES
VALID_STATUSES == {S_open, S_in_progress, S_awaiting_parts, S_complete}

\* the status values of PATCH requests: two valid ones, an alias that
\* normalize_status would accept, a differently cased one and the empty one
StatusRequests ==
    {S_in_progress, S_complete, <<"d","o","n","e">>, <<"O","p","e","n">>, <<>>}

\* rows of status_updates kept in the database, over all records
MaxStatusUpdates == 1

RECURSIVE HistoryRows(_)
HistoryRows(rows) ==
    IF rows = <<>> THEN 0
    ELSE Len(Head(rows).status_updates) + HistoryRows(Tail(rows))

\* StatusUpdateRequest.status (pattern of schemas.py) and the test of
\* line 37: the request is taken only for a member of VALID_STATUSES
status_request_unvalidated(s) == TRUE

status_request_accepted(s) == s \in VALID_STATUSES

\* update_record_status writing the history row after the record: the
\* row's previous_status is read when the record already has the new status
update_record_status_history_after_write(i, s, limit) ==
    /\ HistoryRows(records) < limit
    /\ IF i > Len(records) \/ ~status_request_accepted(s)
       THEN UNCHANGED records
       ELSE records' = [records EXCEPT
                ![i].status = Str(s),
                ![i].status_updates = Append(records[i].status_updates,
                    [previous_status |-> Str(s), new_status |-> Str(s)])]

\* status.py : update_record_status, lines 21-61 -- 404 for an unknown
\* record, 400/422 for an invalid status; otherwise a history row with the
\* previous and the new status is added, the record's status is set and
\* both are committed together.  At most limit history rows are kept.
update_record_status(i, s, limit) ==
    /\ HistoryRows(records) < limit
    /\ IF i > Len(records) \/ ~status_request_accepted(s)
       THEN UNCHANGED records
       ELSE records' = [records EXCEPT
                ![i].status = Str(s),
                ![i].status_updates = Append(records[i].status_updates,
                    [previous_status |-> records[i].status,
                     new_status |-> Str(s)])]

\* the HTTP status of the response: lines 34-35, lines 37-41 (422 from the
\* pattern of schemas.py line 82 for the same values), line 61
status_response(i, s) ==
    IF i > Len(records) THEN 404
    ELSE IF ~status_request_accepted(s) THEN 400
    ELSE 200

UpdateRecordStatus(i, s) ==
    /\ update_record_status(i, s, MaxStatusUpdates)
    /\ UNCHANGED <<docs, handlers, runs, faults, fn, conversions>>

Next ==
    \/ \E ft \in UploadFileTypes : Upload(ft)
    \/ \E table \in LegacyTables : LegacyConvert(table)
    \/ \E c \in Callers, d \in DocIds : TriggerQuery(c, d)
    \/ \E c \in Callers : TriggerDecide(c)
    \/ \E r \in RunIds : RunStart(r)
    \/ \E r \in RunIds : RunExtract(r)
    \/ \E r \in RunIds : RunRecord(r)
    \/ \E r \in RunIds : RunCommit(r)
    \/ \E r \in RunIds : RunExcept(r)
    \/ \E r \in RunIds : RunOuter(r)
    \/ \E i \in RecordIds, s \in StatusRequests : UpdateRecordStatus(i, s)

Spec == Init /\ [][Next]_vars

\* ------------------------------------------------------------------------
\* Properties of the ingestion pipeline (specification Spec)
\* ------------------------------------------------------------------------
UnsupportedDoc(d) ==
    d \in 1..Len(docs) /\ docs[d].file_type \notin SupportedFileTypes

\* the runs of document d that have started and have not ended
RunningRuns(d) ==
    {r \in RunIds : runs[r].doc = d
                    /\ runs[r].pc \in {"extract", "loop", "except", "outer"}}

\* C1: for every document, at most one pipeline run of that document is in
\* progress at any time, whatever the interleaving of the ingest triggers of
\* concurrent callers.
C1_AtMostOneRunInProgress ==
    \A d \in DocIds : Cardinality(RunningRuns(d)) <= 1

\* C2: every pipeline run that has ended left the document's status at
\* 'complete' or at 'error: ' followed by at most 100 characters of the
\* failure message, never at 'processing' or 'uploaded', also when a flush
\* or a commit failed during the run.
C2_EndedRunCompleteOrError ==
    \A r \in RunIds :
        runs[r].pc = "done" =>
            /\ runs[r].final.s \in {"complete", "error"}
            /\ runs[r].final.n <= ERROR_MESSAGE_LIMIT

\* C3: no persisted record has both component and maint_action absent,
\* whether it came from the AI path, the regex fallback or a legacy row.
C3_NoRecordWithoutComponentAndAction ==
    \A i \in 1..Len(records) :
        Truthy(records[i].component) \/ Truthy(records[i].maint_action)

\* C6: a record persisted by a pipeline run carries extraction_method 'llm'
\* exactly when its candidate came from the AI path and 'regex' exactly when
\* it came from the regex fallback; a record persisted by a legacy
\* conversion carries 'legacy_conversion'.
C6_ProvenanceTagMatchesPath ==
    \A i \in 1..Len(records) :
        records[i].extraction_method =
            CASE records[i].origin = "llm" -> "llm"
              [] records[i].origin = "regex" -> "regex"
              [] records[i].origin = "legacy" -> "legacy_conversion"

\* a value the model returned for a cost or date field that no parser can
\* read: a non-blank string without any digit that is not a null marker
Unparsable(v) ==
    /\ IsStr(v)
    /\ Lower(Strip(v.s)) \notin StringNullLike
    /\ \A i \in 1..Len(v.s) : ~IsDigit(v.s[i])

\* C7: when a candidate of a pipeline run carries a cost or date value that
\* cannot be parsed, the persisted record has that field absent and carries
\* a low-severity anomaly naming that field.
C7_ParseFailureLeavesLowAnomaly ==
    \A i \in 1..Len(records) :
        records[i].origin = "llm" =>
            \A f \in {"cost_estimate", "start_date", "end_date"} :
                Unparsable(Get(records[i].raw, f)) =>
                    /\ IsNone(records[i][f])
                    /\ \E a \in 1..Len(records[i].anomalies) :
                          /\ records[i].anomalies[a].severity = "low"
                          /\ records[i].anomalies[a].field_name = f

\* C8 as stated: a pipeline run on a document whose declared type is not a
\* supported one ends with status 'error: <message>' and not 'complete'.
C8_UnsupportedTypeRunEndsError ==
    \A r \in RunIds :
        (runs[r].pc = "done" /\ UnsupportedDoc(runs[r].doc)) =>
            runs[r].final.s = "error"

\* C8 amended: on a document whose declared type is not a supported one,
\* text extraction never raises, and a run in which no later step raised
\* ends with status 'complete'.
C8_UnsupportedTypeRunNotFatal ==
    \A r \in RunIds :
        UnsupportedDoc(runs[r].doc) =>
            /\ runs[r].raised # "IOError"
            /\ (runs[r].pc = "done" /\ runs[r].raised = "") =>
                   runs[r].final = Status("complete")

\* a run on a legacy_excel document has ended 'complete'
C8_Witness ==
    \E r \in RunIds :
        /\ runs[r].pc = "done"
        /\ UnsupportedDoc(runs[r].doc)
        /\ runs[r].raised = ""
        /\ runs[r].final = Status("complete")
        /\ docs[runs[r].doc].status = Status("complete")

\* C9: every accepted trigger was acknowledged before its run started,
\* whatever the run does later, and no exception of a run leaves the
\* background task: a failure shows only in the document's status.
C9_FailuresAbsorbedByBackgroundTask ==
    \A r \in RunIds :
        runs[r].pc # "unused" =>
            /\ runs[r].ack = "Ingestion started"
            /\ ~runs[r].escaped

\* ------------------------------------------------------------------------
\* extract_records as a function of the document text and the model's
\* response (specification SpecExtract)
\* ------------------------------------------------------------------------
\* field values that are neither strings nor numbers
OddFieldsObj ==
    Obj([component |-> Other("list"), maint_action |-> Bool(TRUE),
         priority |-> Other("dict"), start_date |-> Bool(FALSE),
         end_date |-> Other("list"), cost_estimate |-> Other("dict"),
         summary_notes |-> Num(7)])

ExtractResponses ==
    PipelineResponses \cup
    {RespFencedBad,
     RespDirect(GoodObj), RespFenced(JList(<<>>)), RespSpan(JList(<<>>)),
     RespDirect(Str(<<"n","o","n","e">>)), RespDirect(Bool(TRUE)), RespDirect(None),
     RespFenced(Num(7)), RespDirect(JList(<<OddFieldsObj>>)),
     RespDirect(JList(<<GoodObj, Str(<<"P","u","m","p">>)>>)),
     RespSpan(JList(<<JList(<<GoodObj>>)>>)),
     RespDirect(JList(<<None>>))}

\* a text in which the component patterns match n times
ManyComponents(n) == [i \in 1..n |-> <<"C", DigitChars[(i % 10) + 1]>>]

ExtractTexts ==
    PipelineTexts \cup
    {[components |-> <<>>, actions |-> <<<<"r","e","p","l","a","c","e"," ","s","e","a","l">>, <<"i","n","s","p","e","c","t">>>>,
      priority |-> Str(<<"U","R","G","E","N","T">>), cost |-> None],
     [components |-> ManyComponents(RegexRecordLimit + 2),
      actions |-> <<<<"f","i","x">>>>, priority |-> None,
      cost |-> Str(<<"$","1","2",".","5","0">>)],
     [components |-> <<>>, actions |-> <<>>, priority |-> Str(<<"l","o","w">>),
      cost |-> Str(<<"$","7">>)]}

InitExtract ==
    /\ docs = <<>>
    /\ records = <<>>
    /\ handlers = [c \in Callers |-> IdleHandler]
    /\ runs = [r \in RunIds |-> FreshRun]
    /\ faults = 0
    /\ conversions = <<>>
    /\ \E text \in ExtractTexts, resp \in ExtractResponses :
          fn = [op |-> "extract_records", stage |-> "input",
                text |-> text, resp |-> resp, out |-> NoResult]

\* llm/extractor.py : extract_records, lines 21-42
CallExtractRecords ==
    /\ fn.op = "extract_records"
    /\ fn.stage = "input"
    /\ fn' = [fn EXCEPT !.stage = "output",
                        !.out = extract_records(fn.text, fn.resp)]
    /\ UNCHANGED <<docs, records, handlers, runs, faults, conversions>>

NextExtract == CallExtractRecords

SpecExtract == InitExtract /\ [][NextExtract]_vars

\* C4: extract_records returns a list and raises no exception for every
\* response of the model, including JSON that is not an array of objects.
C4_ExtractRecordsNeverRaises ==
    (fn.op = "extract_records" /\ fn.stage = "output") =>
        (fn.out # Raise /\ fn.out.t = "ok")

\* the AI path yields no result: the client returned empty text, all three
\* parse stages failed, or the parsed list is empty
AIPathNoResult(resp) ==
    \/ resp.empty
    \/ parse_json_response(resp) = NoResult
    \/ parse_json_response(resp) = Ok(<<>>)

\* C5: whenever the AI path yields no result, extract_records(text) returns
\* exactly what the regex extractor returns on the same text.
C5_FallbackEqualsRegex ==
    (fn.op = "extract_records" /\ fn.stage = "output"
     /\ AIPathNoResult(fn.resp)) =>
        fn.out = Ok(regex_extract(fn.text))

\* the model answered with an empty array and the regex path found records
C5_Witness ==
    /\ fn.op = "extract_records" /\ fn.stage = "output"
    /\ ~fn.resp.empty
    /\ parse_json_response(fn.resp) = Ok(<<>>)
    /\ regex_extract(fn.text) # <<>>
    /\ fn.out = Ok(regex_extract(fn.text))

\* ------------------------------------------------------------------------
\* The normalizers applied to their own output (specification SpecNorm)
\* ------------------------------------------------------------------------
MaxLen == 3

NormAlphabet == {" ", "n", "a", "/", "1", "-", "P", "."}

RECURSIVE StringsUpTo(_)
StringsUpTo(n) ==
    IF n = 0 THEN {<<>>}
    ELSE LET shorter == StringsUpTo(n - 1)
         IN shorter \cup {Append(s, c) : s \in shorter, c \in NormAlphabet}

NormSampleStrings ==
    {<<"2","0","2","4","-","0","1","-","2","0">>, <<"0","1","/","1","5","/","2","0","2","4">>, <<"1","3","/","0","1","/","2","0","2","4">>, <<"2","0","2","4","/","0","2","/","3","0">>,
     <<"2","0","2","4","0","1","2","0">>, <<"J","a","n","u","a","r","y"," ","5",","," ","2","0","2","4">>, <<"j","a","n"," ","5",","," ","2","0","2","4">>, <<" ","1","-","2","-","2","0","2","4"," ">>,
     <<"$","1",",","0","0","0">>, <<"1",".","5","0">>, <<"-","5">>, <<"1",".","2",".","3">>, <<"U","S","D"," ","1","2","e","3">>, <<"a","b","c">>,
     <<" ","H","I","G","H"," ">>, <<"C","r","i","t","i","c","a","l">>, <<"p","2">>, <<"r","o","u","t","i","n","e">>, <<"w","h","e","n","e","v","e","r">>,
     <<"I","n"," ","P","r","o","g","r","e","s","s">>, <<"a","w","a","i","t","i","n","g"," ","p","a","r","t","s">>, <<"D","O","N","E">>, <<"c","l","o","s","e","d">>, <<"w","i","p">>,
     <<"2">>, <<"3">>, <<"P","3">>, <<"M","o","d","e","r","a","t","e">>,
     <<"n","o","r","m","a","l">>, <<"m","i","n","o","r">>, <<" ","U","R","G","E","N","T">>, <<"m","e","d","i","u","m">>,
     <<"L","o","w">>, <<"e","m","e","r","g","e","n","c","y"," ","r","e","p","a","i","r">>, <<"l","o","w","e","s","t">>, <<"n","o","t"," ","s","e","t">>,
     <<"$","2",",","5","0","0",".","0","0">>, <<"N","/","A">>, <<"2","5","0","0">>, <<"-","1",",","2","0","0",".","5","0">>,
     <<"0","1","/","0","2","/","2","0","2","4">>, <<"i","n","v","a","l","i","d">>, <<"2","0","2","4","-","1","3","-","0","1">>, <<"0","2","-","0","3","-","2","0","2","4">>,
     <<"3","1","-","1","2","-","2","0","2","4">>,
     <<" ","N","/","A"," ">>, <<"N","U","L","L">>, <<"N","o","n","e">>, <<" "," ","P","u","m","p"," "," "," "," ","A","-","1","0","1"," "," ">>, <<"n","a">>}

NormValues ==
    {Str(s) : s \in StringsUpTo(MaxLen) \cup NormSampleStrings}
    \cup {None, Num(0), Num(3), Num(2500), Num(-4), Bool(TRUE), Bool(FALSE),
          Date(2024, 1, 20), Dec(150, 2), Dec(-5, 0), Float(25, 1),
          Other("list")}

FieldNormalizers ==
    {"normalize_string", "normalize_priority", "normalize_status",
     "normalize_date", "normalize_cost"}

NormRecords ==
    {Obj([component |-> c, priority |-> p, cost_estimate |-> k,
          start_date |-> d, summary_notes |-> Str(<<" ","s","e","e"," "," ","l","o","g"," ">>)]) :
        c \in {None, Str(<<" ","n","a">>), Str(<<"P","u","m","p"," "," ","A">>)},
        p \in {None, Str(<<"P","1">>), Str(<<"w","e","i","r","d">>)},
        k \in {None, Num(2500), Str(<<"$","1",",","0","0","0">>), Str(<<"a","b","c">>)},
        d \in {None, Str(<<"0","1","/","1","5","/","2","0","2","4">>), Str(<<"s","o","o","n">>)}}
    \cup {Obj([status |-> Str(<<"W","I","P">>), maint_action |-> Str(<<"f","i","x">>),
               end_date |-> Date(2024, 1, 20), cost_estimate |-> Dec(150, 2),
               system |-> Str(<<"n","o","n","e">>), failure_type |-> Num(3)]),
          Obj([cost_estimate |-> Bool(TRUE)])}

\* one application of the normalizer named op
Normalize(op, value) ==
    LET Wrapped(out) == IF out = Raise THEN Raise ELSE Obj(out)
    IN CASE op = "normalize_string" -> normalize_string(value)
         [] op = "normalize_priority" -> normalize_priority(value)
         [] op = "normalize_status" -> normalize_status(value)
         [] op = "normalize_date" -> normalize_date(value)
         [] op = "normalize_cost" -> normalize_cost(value)
         [] op = "normalize_record" -> Wrapped(normalize_record(value.d))

InitNorm ==
    /\ docs = <<>>
    /\ records = <<>>
    /\ handlers = [c \in Callers |-> IdleHandler]
    /\ runs = [r \in RunIds |-> FreshRun]
    /\ faults = 0
    /\ conversions = <<>>
    /\ \/ \E op \in FieldNormalizers, value \in NormValues :
             fn = [op |-> op, stage |-> "input", arg |-> value,
                   once |-> None, twice |-> None]
       \/ \E rec \in NormRecords :
             fn = [op |-> "normalize_record", stage |-> "input", arg |-> rec,
                   once |-> None, twice |-> None]

\* the normalizer applied to the input
NormalizeOnce ==
    /\ fn.op \in FieldNormalizers \cup {"normalize_record"}
    /\ fn.stage = "input"
    /\ \E out \in {Normalize(fn.op, fn.arg)} :
          fn' = [fn EXCEPT !.stage = IF out = Raise THEN "raised" ELSE "once",
                           !.once = out]
    /\ UNCHANGED <<docs, records, handlers, runs, faults, conversions>>

\* the normalizer applied to its own output
NormalizeTwice ==
    /\ fn.op \in FieldNormalizers \cup {"normalize_record"}
    /\ fn.stage = "once"
    /\ \E out \in {Normalize(fn.op, fn.once)} :
          fn' = [fn EXCEPT !.stage = IF out = Raise THEN "raised" ELSE "twice",
                           !.twice = out]
    /\ UNCHANGED <<docs, records, handlers, runs, faults, conversions>>

NextNorm == NormalizeOnce \/ NormalizeTwice

SpecNorm == InitNorm /\ [][NextNorm]_vars

\* C10: every field normalizer and normalize_record is idempotent: applied
\* to its own output it returns that same output (and does not raise).
C10_NormalizersIdempotent ==
    fn.op \in FieldNormalizers \cup {"normalize_record"} =>
        /\ fn.stage = "twice" => fn.twice = fn.once
        /\ fn.stage = "raised" => fn.once = Raise

\* a blank-padded null marker, or a record with doubled blanks and a
\* formatted cost, has been normalized twice
C10_Witness ==
    /\ fn.stage = "twice"
    /\ \/ /\ fn.op = "normalize_string"
          /\ fn.arg = Str(<<" ","n","a">>)
          /\ fn.once = None
       \/ /\ fn.op = "normalize_record"
          /\ fn.arg.d.component = Str(<<"P","u","m","p"," "," ","A">>)
          /\ fn.once.d.component = Str(<<"P","u","m","p"," ","A">>)
          /\ fn.once.d.cost_estimate = Dec(1000, 0)
          /\ fn.twice = fn.once

\* ------------------------------------------------------------------------
\* Record status (specification Spec)
\* ------------------------------------------------------------------------
\* normalize_status over every input of the test bench: the result is one
\* of the four statuses; an absent value and a token that is neither a
\* status nor an alias give 'open'
NormalizeStatusInRange ==
    /\ \A v \in NormValues :
          /\ normalize_status(v).t = "str"
          /\ normalize_status(v).s \in VALID_STATUSES
    /\ normalize_status(None) = Str(S_open)
    /\ \A s \in {<<"w","i","p">>, <<"I","n"," ","P","r","o","g","r","e","s","s">>, <<"w","h","e","n","e","v","e","r">>, <<" ","-"," ">>} :
          normalize_status(Str(s)) = Str(S_open)
    /\ normalize_status(Str(<<" ","D","O","N","E"," ">>)) = Str(S_complete)
    /\ normalize_status(Str(<<"A","w","a","i","t","i","n","g","-","P","a","r","t","s">>)) = Str(S_awaiting_parts)

\* C11: after any sequence of pipeline runs, legacy conversions and status
\* updates every persisted record has a status among open, in-progress,
\* awaiting-parts and complete (never an absent one), and normalize_status
\* maps every input into that set with 'open' as the default
C11_StatusAlwaysValid ==
    /\ \A i \in 1..Len(records) :
          /\ records[i].status.t = "str"
          /\ records[i].status.s \in VALID_STATUSES
    /\ NormalizeStatusInRange

\* a record made by a pipeline run is persisted and a status update has
\* moved it away from 'open'
C11_Witness ==
    /\ \E i \in 1..Len(records) :
          /\ records[i].status_updates # <<>>
          /\ records[i].status # Str(S_open)
          /\ records[i].origin \in {"llm", "regex"}

\* ------------------------------------------------------------------------
\* Priority and date normalization (specification SpecNorm)
\* ------------------------------------------------------------------------
\* the priority words of the three buckets
HighAliases == {<<"1">>, <<"p","1">>, <<"c","r","i","t","i","c","a","l">>, <<"u","r","g","e","n","t">>}
MediumAliases == {<<"2">>, <<"p","2">>, <<"m","o","d","e","r","a","t","e">>, <<"n","o","r","m","a","l">>}
LowAliases == {<<"3">>, <<"p","3">>, <<"m","i","n","o","r">>, <<"r","o","u","t","i","n","e">>}
BucketKeywords ==
    {<<"h","i","g","h">>, <<"c","r","i","t","i","c","a","l">>, <<"u","r","g","e","n","t">>, <<"e","m","e","r","g","e","n","c","y">>, <<"m","e","d","i","u","m">>,
     <<"m","o","d","e","r","a","t","e">>, <<"n","o","r","m","a","l">>, <<"l","o","w">>, <<"m","i","n","o","r">>, <<"r","o","u","t","i","n","e">>}

\* the trimmed, lower-cased text of a priority input
PriorityToken(v) == Strip(Lower(PyStr(v)))

\* C12: normalize_priority returns high, medium, low or absent for every
\* input: the canonical tokens map to themselves, 1/p1/critical/urgent to
\* high, 2/p2/moderate/normal to medium, 3/p3/minor/routine to low, and a
\* token that is no alias and contains no bucket keyword maps to absent,
\* never to the raw token
C12_PriorityBuckets ==
    (fn.op = "normalize_priority" /\ fn.stage \in {"once", "twice"}) =>
        /\ fn.once \in {Str(S_high), Str(S_medium), Str(S_low), None}
        /\ ~IsNone(fn.arg) =>
              /\ PriorityToken(fn.arg) \in {S_high, S_medium, S_low} =>
                     fn.once = Str(PriorityToken(fn.arg))
              /\ PriorityToken(fn.arg) \in HighAliases =>
                     fn.once = Str(S_high)
              /\ PriorityToken(fn.arg) \in MediumAliases =>
                     fn.once = Str(S_medium)
              /\ PriorityToken(fn.arg) \in LowAliases => fn.once = Str(S_low)
              /\ (/\ PriorityToken(fn.arg) \notin
                        {S_high, S_medium, S_low} \cup HighAliases
                        \cup MediumAliases \cup LowAliases
                  /\ \A k \in BucketKeywords :
                        ~Contains(PriorityToken(fn.arg), k)) =>
                     fn.once = None

\* an unrecognised word has been normalized to absent
C12_Witness ==
    /\ fn.op = "normalize_priority"
    /\ fn.stage = "once"
    /\ fn.arg = Str(<<"n","o","t"," ","s","e","t">>)
    /\ fn.once = None

\* ------------------------------------------------------------------------
\* The anomaly detector on its own and behind the normalizer
\* (specification SpecDetect)
\* ------------------------------------------------------------------------
\* date values of records given to detect_anomalies: absent, empty, text
\* that is no ISO date, ISO text, dates, and a number
DetectDates ==
    {None, Str(<<>>), Str(<<"s","o","o","n">>), Str(<<"0","1","/","1","5","/","2","0","2","4">>),
     Str(<<"2","0","2","4","-","0","2","-","3","0">>), Str(<<"2","0","2","4","-","0","1","-","2","0">>), Str(<<"2","0","2","4","-","0","1","-","1","5">>),
     Date(2024, 1, 20), Date(2025, 1, 19), Date(2025, 1, 20),
     Date(2025, 6, 1), Date(2025, 6, 2), Date(2026, 1, 1), Date(2027, 1, 1),
     Num(20240115)}

\* cost values: around both thresholds, negative, text, and a container
DetectCosts ==
    {None, Num(0), Num(-5), Num(2500), Num(100000), Num(100001),
     Num(1000000), Num(1000001), Num(-500000), Num(-2000000),
     Dec(10000001, 2), Dec(100000001, 2), Dec(-1, 2), Float(25, 1),
     Str(<<"2","5","0","0">>), Str(<<"-","3">>), Str(<<"a","b","c">>), Str(<<"$","5">>), Str(<<>>),
     Other("list")}

DetectRecord(component, priority, action, start, end, cost) ==
    [component |-> component, priority |-> priority,
     maint_action |-> action, start_date |-> start, end_date |-> end,
     cost_estimate |-> cost]

\* records handed to detect_anomalies directly
DetectRecords ==
    {DetectRecord(c, Str(S_high), Str(<<"f","i","x">>), s, e, k) :
        c \in {None, Str(<<"P","u","m","p">>)}, s \in DetectDates, e \in DetectDates,
        k \in {None, Num(-5)}}
    \cup {DetectRecord(c, p, a, s, Date(2026, 1, 1), k) :
            c \in {None, Str(<<>>), Str(<<"P","u","m","p">>)},
            p \in {None, Str(S_high), Str(<<"H","I","G","H">>), Str(<<"w","e","i","r","d">>)},
            a \in {None, Str(<<"f","i","x">>)},
            s \in {None, Date(2027, 1, 1)},
            k \in DetectCosts}
    \cup {[component |-> Str(<<"P","u","m","p">>)]}

\* raw candidate records of the pipeline, normalized before detection
DetectRaws ==
    {[component |-> Str(<<"P","u","m","p">>), priority |-> p, cost_estimate |-> k,
      start_date |-> s] :
        p \in {Str(<<"P","1">>), None},
        s \in {None, Str(<<"s","o","o","n">>)},
        k \in {None, Num(-5), Num(2500), Num(0), Num(-2000000),
               Dec(-150, 2), Float(-25, 1), Float(25, 1),
               Str(<<"$","2",",","5","0","0",".","0","0">>), Str(<<"2","5","0","0">>), Str(<<"N","/","A">>),
               Str(<<" ","n","u","l","l"," ">>), Str(<<"-","1",",","2","0","0",".","5","0">>), Str(<<"a","b","c">>),
               Bool(TRUE)}}

\* no raw candidate: the record was given to the detector as it is
NoRaw == [t |-> "noraw"]

InitDetect ==
    /\ docs = <<>>
    /\ records = <<>>
    /\ handlers = [c \in Callers |-> IdleHandler]
    /\ runs = [r \in RunIds |-> FreshRun]
    /\ faults = 0
    /\ conversions = <<>>
    /\ \E today \in Todays :
          \/ \E rec \in DetectRecords :
                fn = [op |-> "detect_anomalies", stage |-> "input",
                      raw |-> NoRaw, record |-> rec, today |-> today,
                      out |-> <<>>]
          \/ \E raw \in DetectRaws :
                fn = [op |-> "detect_anomalies", stage |-> "raw",
                      raw |-> raw, record |-> None, today |-> today,
                      out |-> <<>>]

\* pipeline.py line 68: normalized = normalize_record(record_data)
DetectNormalize ==
    /\ fn.op = "detect_anomalies"
    /\ fn.stage = "raw"
    /\ \E normalized \in {normalize_record(fn.raw)} :
          fn' = [fn EXCEPT
                    !.stage = IF normalized = Raise THEN "failed"
                              ELSE "input",
                    !.record = normalized]
    /\ UNCHANGED <<docs, records, handlers, runs, faults, conversions>>

\* detect_anomalies(record): the list it returns, or the exception
DetectCall ==
    /\ fn.op = "detect_anomalies"
    /\ fn.stage = "input"
    /\ \E found \in {detect_anomalies(fn.record, fn.today)} :
          fn' = [fn EXCEPT
                    !.stage = IF found = Raise THEN "raised" ELSE "done",
                    !.out = IF found = Raise THEN <<>> ELSE found.v]
    /\ UNCHANGED <<docs, records, handlers, runs, faults, conversions>>

NextDetect == DetectNormalize \/ DetectCall

SpecDetect == InitDetect /\ [][NextDetect]_vars

\* ---- normalize_date (specification SpecNorm) ----
\* the result of the earliest of the nine patterns that parses s, or absent
EarliestPattern(s) ==
    LET Pick(hits) ==
            IF hits = {} THEN None
            ELSE Strptime(s, NormalizerDateFormats[
                                CHOOSE k \in hits : \A j \in hits : k <= j])
    IN Pick({k \in 1..Len(NormalizerDateFormats) :
                ~IsNone(Strptime(s, NormalizerDateFormats[k]))})

\* C14: normalize_date tries its patterns in the declared order (ISO, then
\* month-first slash, then day-first slash, ...) and returns the result of
\* the first one that parses, so a slash date valid both ways is read
\* month-first; a string matching no pattern and an absent value give
\* absent
C14_FirstDatePatternWins ==
    (fn.op = "normalize_date" /\ fn.stage \in {"once", "twice"}) =>
        /\ IsNone(fn.arg) => IsNone(fn.once)
        /\ fn.arg.t \notin {"none", "date"} =>
              fn.once = EarliestPattern(Strip(PyStr(fn.arg)))
        /\ fn.arg = Str(<<"2","0","2","4","-","0","1","-","2","0">>) => fn.once = Date(2024, 1, 20)
        /\ fn.arg = Str(<<"0","1","/","0","2","/","2","0","2","4">>) => fn.once = Date(2024, 1, 2)
        /\ fn.arg = Str(<<"1","3","/","0","1","/","2","0","2","4">>) => fn.once = Date(2024, 1, 13)
        /\ fn.arg = Str(<<"0","2","-","0","3","-","2","0","2","4">>) => fn.once = Date(2024, 2, 3)
        /\ fn.arg = Str(<<"3","1","-","1","2","-","2","0","2","4">>) => fn.once = Date(2024, 12, 31)
        /\ fn.arg \in {Str(<<"i","n","v","a","l","i","d">>), Str(<<"2","0","2","4","-","1","3","-","0","1">>), Str(<<"N","/","A">>)}
              => IsNone(fn.once)

\* a slash date that is valid month-first and day-first was read
\* month-first
C14_Witness ==
    /\ fn.op = "normalize_date"
    /\ fn.stage = "once"
    /\ fn.arg = Str(<<"0","1","/","0","2","/","2","0","2","4">>)
    /\ fn.once = Date(2024, 1, 2)

\* ---- cost through the normalizer and the detector (SpecDetect) ----
\* the number a numeric value stands for, as <<unscaled, scale>>
Unscaled(v) == IF v.t = "num" THEN v.n ELSE v.u
ScaleOf(v) == IF v.t = "num" THEN 0 ELSE v.sc
SameNumber(a, b) ==
    Unscaled(a) * Pow10(ScaleOf(b)) = Unscaled(b) * Pow10(ScaleOf(a))

\* C13: normalize_cost returns a numeric input, negative ones included,
\* with its value unchanged, returns the number left after removing
\* currency symbols and thousands separators from a string, and returns
\* absent for an absent or null-like input; a negative cost reaches the
\* anomaly detector unchanged and yields a high-severity anomaly on
\* cost_estimate
C13_CostNormalizedAndNegativeFlagged ==
    (fn.op = "detect_anomalies" /\ fn.raw # NoRaw
     /\ fn.stage \in {"input", "done"}) =>
        /\ fn.raw.cost_estimate.t \in {"num", "dec", "float"} =>
              /\ fn.record.cost_estimate.t = "dec"
              /\ SameNumber(fn.record.cost_estimate, fn.raw.cost_estimate)
        /\ fn.raw.cost_estimate = Str(<<"$","2",",","5","0","0",".","0","0">>) =>
              fn.record.cost_estimate = Dec(250000, 2)
        /\ fn.raw.cost_estimate = Str(<<"2","5","0","0">>) =>
              fn.record.cost_estimate = Dec(2500, 0)
        /\ fn.raw.cost_estimate = Str(<<"-","1",",","2","0","0",".","5","0">>) =>
              fn.record.cost_estimate = Dec(-120050, 2)
        /\ fn.raw.cost_estimate \in {None, Str(<<"N","/","A">>), Str(<<" ","n","u","l","l"," ">>)} =>
              fn.record.cost_estimate = None
        /\ (/\ fn.stage = "done"
            /\ fn.raw.cost_estimate.t \in {"num", "dec", "float"}
            /\ Unscaled(fn.raw.cost_estimate) < 0) =>
              \E i \in 1..Len(fn.out) :
                 fn.out[i] = Anomaly("invalid_value", "high", "cost_estimate")

\* a negative number went through the normalizer and the detector
C13_Witness ==
    /\ fn.op = "detect_anomalies"
    /\ fn.stage = "done"
    /\ fn.raw # NoRaw
    /\ fn.raw.cost_estimate = Num(-5)
    /\ fn.record.cost_estimate = Dec(-5, 0)
    /\ Anomaly("invalid_value", "high", "cost_estimate")
          \in {fn.out[i] : i \in 1..Len(fn.out)}

\* ------------------------------------------------------------------------
\* The rules of the anomaly detector (specification SpecDetect)
\* ------------------------------------------------------------------------
\* the call returned a list for a record with the cost c = u / 10^sc
CostJudged ==
    /\ fn.op = "detect_anomalies"
    /\ fn.stage = "done"
    /\ ~IsNone(Get(fn.record, "cost_estimate"))
    /\ CostFloat(Get(fn.record, "cost_estimate")) # None

CostU == CostFloat(Get(fn.record, "cost_estimate")).u
CostUnit == Pow10(CostFloat(Get(fn.record, "cost_estimate")).sc)
AbsCostU == IF CostU < 0 THEN 0 - CostU ELSE CostU

\* the anomalies of the list that name cost_estimate
CostAnomalies ==
    SelectSeq(fn.out, LAMBDA a : a.field_name = "cost_estimate")
Reported(a) == \E i \in 1..Len(fn.out) : fn.out[i] = a

\* C15 as stated: with the thresholds applied to the magnitude |c|
C15_CostClassifiedByMagnitude ==
    CostJudged =>
        /\ CostU < 0 =>
              Reported(Anomaly("invalid_value", "high", "cost_estimate"))
        /\ AbsCostU > COST_ERROR_THRESHOLD * CostUnit =>
              Reported(Anomaly("extreme_value", "high", "cost_estimate"))
        /\ (/\ AbsCostU > COST_WARNING_THRESHOLD * CostUnit
            /\ AbsCostU <= COST_ERROR_THRESHOLD * CostUnit) =>
              Reported(Anomaly("extreme_value", "medium", "cost_estimate"))
        /\ (CostU >= 0 /\ CostU <= COST_WARNING_THRESHOLD * CostUnit) =>
              CostAnomalies = <<>>

\* C15: for every record with a parsable cost c, detect_anomalies reports
\* on cost_estimate exactly one invalid_value of severity high when c < 0
\* (whatever its magnitude), exactly one extreme_value of severity high
\* when c > 1,000,000, exactly one extreme_value of severity medium when
\* 100,000 < c <= 1,000,000, and nothing when 0 <= c <= 100,000
C15_CostClassifiedBySignedValue ==
    CostJudged =>
        CostAnomalies =
            IF CostU < 0
            THEN <<Anomaly("invalid_value", "high", "cost_estimate")>>
            ELSE IF CostU > COST_ERROR_THRESHOLD * CostUnit
            THEN <<Anomaly("extreme_value", "high", "cost_estimate")>>
            ELSE IF CostU > COST_WARNING_THRESHOLD * CostUnit
            THEN <<Anomaly("extreme_value", "medium", "cost_estimate")>>
            ELSE <<>>

\* a negative cost beyond the upper threshold was judged: it is reported
\* as an invalid value only
C15_Witness ==
    /\ CostJudged
    /\ fn.record.cost_estimate = Num(-2000000)
    /\ CostAnomalies = <<Anomaly("invalid_value", "high", "cost_estimate")>>

\* the calendar date a field holds: a date, or a string that parses as an
\* ISO date; absent otherwise
DateOf(v) ==
    IF v.t = "date" THEN v
    ELSE IF v.t = "str" THEN FromIsoFormat(v.s)
    ELSE None
StartDate == DateOf(Get(fn.record, "start_date"))
EndDate == DateOf(Get(fn.record, "end_date"))
BothDatesPresent == ~IsNone(StartDate) /\ ~IsNone(EndDate)
DateAnomaly(severity) ==
    \E i \in 1..Len(fn.out) :
       /\ fn.out[i].anomaly_type = "date_inconsistency"
       /\ fn.out[i].severity = severity

\* C16: detect_anomalies reports a date_inconsistency of severity high
\* exactly when both dates are present and end < start, one of severity
\* low exactly when both are present and end - start > 365 days, and one
\* of severity medium exactly when both are present and end is more than
\* 365 days after today; with a date absent or a string that does not
\* parse, no date anomaly is reported
C16_DateRules ==
    (fn.op = "detect_anomalies" /\ fn.stage = "done") =>
        /\ DateAnomaly("high") <=>
              (BothDatesPresent /\ Ordinal(EndDate) < Ordinal(StartDate))
        /\ DateAnomaly("low") <=>
              (BothDatesPresent
               /\ Ordinal(EndDate) - Ordinal(StartDate) > 365)
        /\ DateAnomaly("medium") <=>
              (BothDatesPresent
               /\ Ordinal(EndDate) > Ordinal(fn.today) + 365)
        /\ ~BothDatesPresent =>
              \A i \in 1..Len(fn.out) :
                 fn.out[i].anomaly_type # "date_inconsistency"

\* two ISO strings with the end five days before the start were judged:
\* only the high-severity anomaly is reported
C16_Witness ==
    /\ fn.op = "detect_anomalies"
    /\ fn.stage = "done"
    /\ Get(fn.record, "start_date") = Str(<<"2","0","2","4","-","0","1","-","2","0">>)
    /\ Get(fn.record, "end_date") = Str(<<"2","0","2","4","-","0","1","-","1","5">>)
    /\ DateAnomaly("high")
    /\ ~DateAnomaly("low")
    /\ ~DateAnomaly("medium")

\* a field is absent when the record has no value or an empty text for it
FieldAbsent(field) ==
    \/ IsNone(Get(fn.record, field))
    \/ Get(fn.record, field) = Str(<<>>)
\* the missing_field anomalies of the list that name the field
MissingReports(field) ==
    SelectSeq(fn.out, LAMBDA a : /\ a.anomaly_type = "missing_field"
                                 /\ a.field_name = field)
CriticalFields ==
    {<<"component", "high">>, <<"priority", "medium">>,
     <<"maint_action", "medium">>}

\* C17: for each of component, priority and maint_action, detect_anomalies
\* reports exactly one missing_field anomaly naming the field when it is
\* absent (severity high for component, medium for the other two) and
\* none naming it when it is present
C17_MissingFieldRules ==
    (fn.op = "detect_anomalies" /\ fn.stage = "done") =>
        \A cf \in CriticalFields :
           MissingReports(cf[1]) =
               IF FieldAbsent(cf[1])
               THEN <<Anomaly("missing_field", cf[2], cf[1])>>
               ELSE <<>>

\* a record without component but with priority and action was judged
C17_Witness ==
    /\ fn.op = "detect_anomalies"
    /\ fn.stage = "done"
    /\ IsNone(Get(fn.record, "component"))
    /\ Get(fn.record, "priority") = Str(S_high)
    /\ MissingReports("component")
          = <<Anomaly("missing_field", "high", "component")>>
    /\ MissingReports("priority") = <<>>
    /\ MissingReports("maint_action") = <<>>

\* C18 as stated: no two anomalies of one call share anomaly_type and
\* field_name
C18_NoTwoWithSameTypeAndField ==
    (fn.op = "detect_anomalies" /\ fn.stage = "done") =>
        \A i, j \in 1..Len(fn.out) :
           (/\ fn.out[i].anomaly_type = fn.out[j].anomaly_type
            /\ fn.out[i].field_name = fn.out[j].field_name) => i = j

\* C18: each anomaly rule fires at most once in one call of
\* detect_anomalies: the returned list never contains two anomalies with
\* the same anomaly_type, field_name and severity; two date_inconsistency
\* anomalies on end_date, one high and one medium, can occur together
C18_NoRuleFiresTwice ==
    (fn.op = "detect_anomalies" /\ fn.stage = "done") =>
        \A i, j \in 1..Len(fn.out) :
           (/\ fn.out[i].anomaly_type = fn.out[j].anomaly_type
            /\ fn.out[i].field_name = fn.out[j].field_name
            /\ i # j) =>
               /\ fn.out[i].severity # fn.out[j].severity
               /\ fn.out[i].anomaly_type = "date_inconsistency"
               /\ fn.out[i].field_name = "end_date"

\* an end date before the start date and more than a year ahead of today
\* was judged: end_date carries two date_inconsistency anomalies
C18_Witness ==
    /\ fn.op = "detect_anomalies"
    /\ fn.stage = "done"
    /\ Get(fn.record, "start_date") = Date(2027, 1, 1)
    /\ Get(fn.record, "end_date") = Date(2026, 1, 1)
    /\ Reported(Anomaly("date_inconsistency", "high", "end_date"))
    /\ Reported(Anomaly("date_inconsistency", "medium", "end_date"))

\* C19: detect_anomalies returns a list and raises no exception for every
\* record, including one whose cost is not numeric and one whose dates are
\* strings that are not ISO dates; a cost that cannot be converted to a
\* number yields one parse_error anomaly of severity low
C19_DetectNeverRaises ==
    fn.op = "detect_anomalies" =>
        /\ fn.stage # "raised"
        /\ (/\ fn.stage = "done"
            /\ ~IsNone(Get(fn.record, "cost_estimate"))
            /\ CostFloat(Get(fn.record, "cost_estimate")) = None) =>
              CostAnomalies
                 = <<Anomaly("parse_error", "low", "cost_estimate")>>

\* ------------------------------------------------------------------------
\* The column mapping of the legacy conversion (specification SpecMap)
\* ------------------------------------------------------------------------
MaxHeaders == 3

\* header texts of a sheet: two that differ only in case and blanks, one
\* that two fields' keywords occur in, one that no keyword occurs in
HeaderPool ==
    {<<"C","o","s","t">>, <<"C","O","S","T"," ">>, <<"P","a","r","t"," ","N","o">>, <<"I","t","e","m"," ","T","y","p","e">>, <<"S","t","a","r","t">>,
     <<"E","n","d"," ","C","o","s","t">>, <<"R","e","f">>}

\* the header lists pandas hands over: no header occurs twice
RECURSIVE HeaderLists(_)
HeaderLists(n) ==
    IF n = 0 THEN {<<>>}
    ELSE LET Longer(shorter) ==
                 shorter \cup
                 {Append(cols, h) : cols \in shorter,
                                    h \in HeaderPool}
         IN {cols \in Longer(HeaderLists(n - 1)) :
                \A i, j \in 1..Len(cols) : cols[i] = cols[j] => i = j}

InitMap ==
    /\ docs = <<>>
    /\ records = <<>>
    /\ handlers = [c \in Callers |-> IdleHandler]
    /\ runs = [r \in RunIds |-> FreshRun]
    /\ faults = 0
    /\ conversions = <<>>
    /\ \E cols \in HeaderLists(MaxHeaders) :
          fn = [op |-> "map_columns", stage |-> "input", arg |-> cols,
                once |-> <<>>, twice |-> <<>>]

\* _map_columns(columns)
MapColumnsOnce ==
    /\ fn.op = "map_columns"
    /\ fn.stage = "input"
    /\ fn' = [fn EXCEPT !.stage = "once", !.once = map_columns(fn.arg)]
    /\ UNCHANGED <<docs, records, handlers, runs, faults, conversions>>

\* _map_columns(columns) a second time on the same list
MapColumnsAgain ==
    /\ fn.op = "map_columns"
    /\ fn.stage = "once"
    /\ fn' = [fn EXCEPT !.stage = "twice", !.twice = map_columns(fn.arg)]
    /\ UNCHANGED <<docs, records, handlers, runs, faults, conversions>>

NextMap == MapColumnsOnce \/ MapColumnsAgain

SpecMap == InitMap /\ [][NextMap]_vars

\* the earliest keyword of kws that some header contains, or 0
EarliestKeyword(cols, kws) ==
    LET Pick(hits) == IF hits = {} THEN 0
                      ELSE CHOOSE k \in hits : \A j \in hits : k <= j
    IN Pick({k \in 1..Len(kws) :
                \E i \in 1..Len(cols) : Contains(Lower(cols[i]), kws[k])})

\* the first header, in header order, that contains kw
FirstHeaderWith(cols, kw) ==
    cols[CHOOSE i \in 1..Len(cols) :
            /\ Contains(Lower(cols[i]), kw)
            /\ \A j \in 1..(i - 1) : ~Contains(Lower(cols[j]), kw)]

\* the mapping of the claim: field by field, independently
ClaimedMapping(cols) ==
    [name \in {STANDARD_FIELDS[f][1] :
                  f \in {g \in 1..Len(STANDARD_FIELDS) :
                            EarliestKeyword(cols, STANDARD_FIELDS[g][2])
                               # 0}} |->
        LET Of(kws) == FirstHeaderWith(cols, kws[EarliestKeyword(cols, kws)])
        IN Of(STANDARD_FIELDS[CHOOSE f \in 1..Len(STANDARD_FIELDS) :
                                  STANDARD_FIELDS[f][1] = name][2])]

\* C20: _map_columns is a pure function of the header list: each canonical
\* field, independently of the others, is mapped to the first header in
\* header order that contains (case-insensitively) the earliest keyword of
\* the field's alias list that any header contains, and is left unmapped
\* when no header contains any of its aliases; mapping the same list a
\* second time yields the identical mapping
C20_MapColumnsFirstMatch ==
    fn.op = "map_columns" =>
        /\ fn.stage \in {"once", "twice"} => fn.once = ClaimedMapping(fn.arg)
        /\ fn.stage = "twice" => fn.twice = fn.once

\* ------------------------------------------------------------------------
\* Legacy conversion results (specification Spec)
\* ------------------------------------------------------------------------
\* the records a legacy conversion persisted for document d
ConvertedRecords(d) ==
    {i \in 1..Len(records) :
        /\ records[i].document_id = d
        /\ records[i].extraction_method = "legacy_conversion"}
WithIssues(d) == {i \in ConvertedRecords(d) : records[i].anomalies # <<>>}

\* C21: a legacy conversion persists exactly one record per input row; in
\* its result records_created equals the number of rows,
\* records_with_issues equals the number of those records that have at
\* least one anomaly and never exceeds records_created, and a record's
\* confidence_score is 0.60 exactly when it has an issue and 0.85 otherwise
C21_LegacyConversionCounts ==
    \A k \in 1..Len(conversions) :
       /\ Cardinality(ConvertedRecords(conversions[k].document_id))
             = conversions[k].rows
       /\ conversions[k].records_created = conversions[k].rows
       /\ conversions[k].records_with_issues
             = Cardinality(WithIssues(conversions[k].document_id))
       /\ conversions[k].records_with_issues
             <= conversions[k].records_created
       /\ \A i \in ConvertedRecords(conversions[k].document_id) :
             records[i].confidence_score
                = IF records[i].anomalies # <<>> THEN 60 ELSE 85

\* a sheet of two rows was converted: one clean record, one with issues
C21_Witness ==
    /\ Len(conversions) = 1
    /\ conversions[1].records_created = 2
    /\ conversions[1].records_with_issues = 1
    /\ \E i, j \in ConvertedRecords(conversions[1].document_id) :
          /\ records[i].confidence_score = 85
          /\ records[j].confidence_score = 60

\* ------------------------------------------------------------------------
\* api/routes/ai.py : the chat request (specification SpecChat)
\* ------------------------------------------------------------------------
\* AIChatRequest(message=..., context=...): the class declares
\* message: str and context: Optional[str] and no validator, so a str
\* message is stored as it is with any str or None context; a message that
\* is no str fails the type validation
AIChatRequest(message, context) ==
    IF message.t # "str" \/ context.t \notin {"str", "none"} THEN Raise
    ELSE Ok([message |-> message, document_id |-> None,
             context |-> context])

MaxMessageLen == 3

\* the messages given to the constructor: every text of blanks and letters
\* up to MaxMessageLen, padded and long ones, and a missing one
RECURSIVE MessagesUpTo(_)
MessagesUpTo(n) ==
    IF n = 0 THEN {<<>>}
    ELSE LET Longer(shorter) ==
                 shorter \cup {Append(s, c) : s \in shorter, c \in {" ", "a"}}
         IN Longer(MessagesUpTo(n - 1))

ChatMessages ==
    {Str(s) : s \in MessagesUpTo(MaxMessageLen)}
    \cup {Str(<<" "," ","t","e","s","t"," ","m","e","s","s","a","g","e"," "," ">>), Str(<<"t","e","s","t"," ","m","e","s","s","a","g","e">>),
          Str([i \in 1..5000 |-> "x"]), Str([i \in 1..5001 |-> "x"]), None}

ChatContexts ==
    {Str(<<"m","a","i","n","t","e","n","a","n","c","e">>), Str(<<"g","e","n","e","r","a","l">>), Str(<<"a","n","a","l","y","s","i","s">>),
     Str(<<"i","n","v","a","l","i","d">>), Str(<<>>), None}

InitChat ==
    /\ docs = <<>>
    /\ records = <<>>
    /\ handlers = [c \in Callers |-> IdleHandler]
    /\ runs = [r \in RunIds |-> FreshRun]
    /\ faults = 0
    /\ conversions = <<>>
    /\ \E message \in ChatMessages, context \in ChatContexts :
          fn = [op |-> "AIChatRequest", stage |-> "input",
                message |-> message, context |-> context, out |-> None]

\* the request object is constructed, or the construction is rejected
ConstructChatRequest ==
    /\ fn.op = "AIChatRequest"
    /\ fn.stage = "input"
    /\ fn' = [fn EXCEPT !.stage = "done",
                        !.out = AIChatRequest(fn.message, fn.context)]
    /\ UNCHANGED <<docs, records, handlers, runs, faults, conversions>>

NextChat == ConstructChatRequest

SpecChat == InitChat /\ [][NextChat]_vars

ChatContextNames == {<<"m","a","i","n","t","e","n","a","n","c","e">>, <<"g","e","n","e","r","a","l">>, <<"a","n","a","l","y","s","i","s">>}

\* C22: constructing an AIChatRequest rejects a message that is empty,
\* whitespace-only, shorter than 3 characters or longer than 5000
\* characters, and rejects a context outside maintenance, general and
\* analysis; an accepted message is stored with its surrounding whitespace
\* removed
C22_ChatRequestValidated ==
    (fn.op = "AIChatRequest" /\ fn.stage = "done" /\ fn.message.t = "str")
    =>
        /\ (\/ Strip(fn.message.s) = <<>>
            \/ Len(Strip(fn.message.s)) < 3
            \/ Len(fn.message.s) > 5000) => fn.out = Raise
        /\ (fn.context.t = "str" /\ fn.context.s \notin ChatContextNames)
              => fn.out = Raise
        /\ fn.out # Raise => fn.out.v.message = Str(Strip(fn.message.s))

\* ------------------------------------------------------------------------
\* Atomicity of the commit of a run (specification Spec)

\* the committed rows of run r
RunRecords(r) ==
    {i \in 1..Len(records) :
        records[i].extraction_method # "legacy_conversion" /\ records[i].run = r}
\* run r has left the try block of process_document
LeftTry(r) == runs[r].pc \in {"outer", "done"}
\* run r has returned from process_document without raising
Succeeded(r) ==
    /\ runs[r].pc = "done"
    /\ runs[r].raised = ""
    /\ runs[r].final = Status("complete")

\* C23 -- a successful run commits all its records, their anomalies and the
\* status 'complete' in one step: in the step in which a run succeeds no
\* record of the run was committed before, afterwards one record for every
\* candidate of the run is committed and the document is 'complete'; and
\* the committed records of a run change only in the step in which the run
\* leaves its try block, so no committed state holds records of a run that
\* is still processing.
C23_CommitInOneStep ==
    [][\A r \in RunIds :
          /\ (~Succeeded(r) /\ Succeeded(r)') =>
                /\ RunRecords(r) = {}
                /\ Cardinality(RunRecords(r)') = Len(runs[r].cands)
                /\ docs'[runs[r].doc].status = Status("complete")
          /\ (RunRecords(r)' # RunRecords(r)) =>
                (runs[r].pc \in {"loop", "except"} /\ LeftTry(r)')
          /\ (RunRecords(r)' # {}) => LeftTry(r)'
      ]_vars
C23_Witness ==
    \E r \in RunIds :
       /\ Succeeded(r)
       /\ Cardinality(RunRecords(r)) >= 2
       /\ docs[runs[r].doc].status = Status("complete")

\* ------------------------------------------------------------------------
\* Growth of the record table (specification Spec)

\* a committed row without the fields a status update writes
Created(x) == [x EXCEPT !.status = Str(S_open), !.status_updates = <<>>]
DocRecords(d) == {i \in 1..Len(records) : records[i].document_id = d}
\* the handler of caller c answers in this step
Decides(c) == handlers[c].pc = "read" /\ handlers'[c].pc = "idle"

\* C24 -- records (with their anomalies) are created only by a pipeline run
\* or a legacy conversion and never deleted or replaced: in every step the
\* rows that exist stay, as they were created, and rows are added only by a
\* run leaving its try block or by a conversion; a trigger reads
\* 'processing' exactly when that is the status, is refused with 400 only
\* when it read 'processing', and otherwise queues a run; so a run that
\* succeeds on a document that already holds records adds one row for each
\* of its candidates and keeps the rows that were there.
C24_RecordsOnlyGrow ==
    [][/\ Len(records') >= Len(records)
       /\ \A i \in 1..Len(records) : Created(records'[i]) = Created(records[i])
       /\ Len(records') > Len(records) =>
             \/ Len(conversions') > Len(conversions)
             \/ \E r \in RunIds : ~LeftTry(r) /\ LeftTry(r)'
       /\ \A i \in (Len(records) + 1)..Len(records') :
             records'[i].extraction_method \in {"llm", "regex", "legacy_conversion"}
       /\ \A c \in Callers :
             /\ (handlers[c].pc = "idle" /\ handlers'[c].pc = "read") =>
                   (handlers'[c].seen = "processing" <=>
                       /\ handlers'[c].doc <= Len(docs)
                       /\ docs[handlers'[c].doc].status.s = "processing")
             /\ (Decides(c) /\ handlers[c].seen \notin {"missing", "processing"}) =>
                   /\ docs'[handlers[c].doc].status = Status("processing")
                   /\ \E r \in RunIds :
                         /\ runs[r].pc = "unused"
                         /\ runs'[r].pc = "queued"
                         /\ runs'[r].doc = handlers[c].doc
             /\ (Decides(c) /\ handlers[c].seen \in {"missing", "processing"}) =>
                   UNCHANGED <<docs, runs>>
       /\ \A r \in RunIds :
             (~Succeeded(r) /\ Succeeded(r)') =>
                 /\ DocRecords(runs[r].doc) \subseteq DocRecords(runs[r].doc)'
                 /\ Cardinality(DocRecords(runs[r].doc)') =
                       Cardinality(DocRecords(runs[r].doc)) + Len(runs[r].cands)
      ]_vars
\* two successful runs on one document have left two copies of a record
C24_Witness ==
    \E q \in RunIds, r \in RunIds :
       /\ q < r
       /\ Succeeded(q) /\ Succeeded(r)
       /\ runs[q].doc = runs[r].doc
       /\ \E i \in RunRecords(q), j \in RunRecords(r) :
             [records[i] EXCEPT !.run = 0] = [records[j] EXCEPT !.run = 0]

\* ------------------------------------------------------------------------
\* llm/client.py : _parse_json_response on response texts
\* (specification SpecParse)

\* A response text is a sequence of tokens separated by optional white
\* space: "[" "]" "," stand for themselves, "fence" is the mark of a fenced
\* code block (three backquotes), "o" is an object literal, "7" a number
\* literal and "w" a word of prose.
MaxTokens == 4
ResponseTokens == {"[", "]", ",", "o", "7", "w", "fence"}
RECURSIVE TokensUpTo(_)
TokensUpTo(n) ==
    IF n = 0 THEN {<<>>}
    ELSE LET F(shorter) ==
                 shorter \cup {Append(t, k) : t \in shorter, k \in ResponseTokens}
         IN F(TokensUpTo(n - 1))
ResponseTexts == TokensUpTo(MaxTokens)

\* the object every "o" literal decodes to
LiteralObj == Obj([component |-> Str(<<"P","u","m","p">>)])
ParseFailed == [ok |-> FALSE, v |-> Undecodable, next |-> 0]
\* the JSON decoder reading one value of toks from position i: the value and
\* the position after it
RECURSIVE ParseValue(_, _), ParseElements(_, _, _)
ParseValue(toks, i) ==
    IF i > Len(toks) THEN ParseFailed
    ELSE IF toks[i] = "o" THEN [ok |-> TRUE, v |-> LiteralObj, next |-> i + 1]
    ELSE IF toks[i] = "7" THEN [ok |-> TRUE, v |-> Num(7), next |-> i + 1]
    ELSE IF toks[i] # "[" THEN ParseFailed
    ELSE IF i < Len(toks) /\ toks[i + 1] = "]"
    THEN [ok |-> TRUE, v |-> JList(<<>>), next |-> i + 2]
    ELSE ParseElements(toks, i + 1, <<>>)
ParseElements(toks, i, acc) ==
    LET F(el) ==
            IF ~el.ok \/ el.next > Len(toks) THEN ParseFailed
            ELSE IF toks[el.next] = ","
            THEN ParseElements(toks, el.next + 1, Append(acc, el.v))
            ELSE IF toks[el.next] = "]"
            THEN [ok |-> TRUE, v |-> JList(Append(acc, el.v)),
                  next |-> el.next + 1]
            ELSE ParseFailed
    IN F(ParseValue(toks, i))
\* json.loads(s): the decoded value, or Undecodable for JSONDecodeError
\* (no value, or extra data after it)
json_loads(toks) ==
    LET F(got) == IF got.ok /\ got.next = Len(toks) + 1 THEN got.v
                  ELSE Undecodable
    IN F(ParseValue(toks, 1))

Positions(toks, tok) == {i \in 1..Len(toks) : toks[i] = tok}
SetMin(S) == CHOOSE x \in S : \A y \in S : x <= y
SetMax(S) == CHOOSE x \in S : \A y \in S : x >= y
\* line 112: re.search of FENCE (?:json)? \s* ([\s\S]*?) \s* FENCE in the
\* text -- group 1 is what stands between the first fence mark and the
\* next one
fence_match(toks) ==
    LET marks == Positions(toks, "fence")
    IN IF Cardinality(marks) < 2 THEN Absent
       ELSE LET first == SetMin(marks)
                second == SetMin(marks \ {first})
            IN json_loads(SubSeq(toks, first + 1, second - 1))
\* line 124: re.search(r'\[[\s\S]*\]', text) -- the match runs from the
\* first "[" to the last "]" of the text
array_match(toks) ==
    LET opens == Positions(toks, "[")
        closes == Positions(toks, "]")
    IN IF opens = {} \/ closes = {} \/ SetMax(closes) < SetMin(opens)
       THEN Absent
       ELSE json_loads(SubSeq(toks, SetMin(opens), SetMax(closes)))
\* what the three stages of _parse_json_response find in the text
StagesOf(toks) ==
    [empty |-> toks = <<>>, whole |-> json_loads(toks),
     fence |-> fence_match(toks), span |-> array_match(toks)]

InitParse ==
    /\ docs = <<>>
    /\ records = <<>>
    /\ handlers = [c \in Callers |-> IdleHandler]
    /\ runs = [r \in RunIds |-> FreshRun]
    /\ faults = 0
    /\ conversions = <<>>
    /\ \E text \in ResponseTexts \ {<<>>} :
          fn = [op |-> "parse_json_response", stage |-> "input",
                text |-> text, out |-> NoResult]

\* llm/client.py : _parse_json_response, lines 99-135
CallParseJsonResponse ==
    /\ fn.op = "parse_json_response"
    /\ fn.stage = "input"
    /\ fn' = [fn EXCEPT !.stage = "output",
                        !.out = parse_json_response(StagesOf(fn.text))]
    /\ UNCHANGED <<docs, records, handlers, runs, faults, conversions>>

NextParse == CallParseJsonResponse

SpecParse == InitParse /\ [][NextParse]_vars

\* the first bracketed span of the text: from the first "[" to the nearest
\* "]" that closes a JSON array
first_bracketed_span(toks) ==
    LET opens == Positions(toks, "[")
    IN IF opens = {} THEN Absent
       ELSE LET a == SetMin(opens)
                ends == {b \in a..Len(toks) :
                            json_loads(SubSeq(toks, a, b)) # Undecodable}
            IN IF ends = {}
               THEN IF \E b \in a..Len(toks) : toks[b] = "]"
                    THEN Undecodable ELSE Absent
               ELSE json_loads(SubSeq(toks, a, SetMin(ends)))
Decodes(j) == j \notin {Undecodable, Absent}
\* the result a stage that found the list or object j gives
StageResult(j) == IF j.t = "list" THEN Ok(j.e) ELSE Ok(<<j>>)

\* C25 -- the result is that of the first of the three stages (whole text,
\* fenced block, first bracketed span) that parses: its list, or its object
\* as a one-element list; and "no result" when no stage parses.
C25_FirstStageThatParses ==
    (fn.op = "parse_json_response" /\ fn.stage = "output") =>
        LET whole == json_loads(fn.text)
            fence == fence_match(fn.text)
            span == first_bracketed_span(fn.text)
        IN IF Decodes(whole)
           THEN whole.t \in {"list", "dict"} => fn.out = StageResult(whole)
           ELSE IF Decodes(fence)
           THEN fence.t \in {"list", "dict"} => fn.out = StageResult(fence)
           ELSE IF Decodes(span)
           THEN fn.out = StageResult(span)
           ELSE fn.out = NoResult

\* ------------------------------------------------------------------------
\* llm/extractor.py : _regex_extract (specification SpecRegex)

\* the largest number of matches of one pattern family in a text
MaxMatches == 11
\* a text in which the action patterns match n times
ManyActions(n) == [i \in 1..n |-> <<"f", "i", "x", DigitChars[(i % 10) + 1]>>]
RegexTexts ==
    {[components |-> ManyComponents(c), actions |-> ManyActions(a),
      priority |-> p, cost |-> None] :
        c \in 0..MaxMatches, a \in 0..MaxMatches,
        p \in {None, Str(<<"H","i","g","h">>)}}

InitRegex ==
    /\ docs = <<>>
    /\ records = <<>>
    /\ handlers = [c \in Callers |-> IdleHandler]
    /\ runs = [r \in RunIds |-> FreshRun]
    /\ faults = 0
    /\ conversions = <<>>
    /\ \E text \in RegexTexts :
          fn = [op |-> "regex_extract", stage |-> "input", text |-> text,
                out |-> <<>>]

\* llm/extractor.py : _regex_extract, lines 58-139
CallRegexExtract ==
    /\ fn.op = "regex_extract"
    /\ fn.stage = "input"
    /\ fn' = [fn EXCEPT !.stage = "output", !.out = regex_extract(fn.text)]
    /\ UNCHANGED <<docs, records, handlers, runs, faults, conversions>>

NextRegex == CallRegexExtract

SpecRegex == InitRegex /\ [][NextRegex]_vars

RegexReturned == fn.op = "regex_extract" /\ fn.stage = "output"
\* record i holds the i-th component match and the i-th action match, a
\* field being absent when its list has no i-th match
PairedByPosition ==
    \A i \in 1..Len(fn.out) :
       /\ fn.out[i].component =
             IF i <= Len(fn.text.components)
             THEN Str(fn.text.components[i]) ELSE None
       /\ fn.out[i].maint_action =
             IF i <= Len(fn.text.actions)
             THEN Str(fn.text.actions[i]) ELSE None

\* C26 -- the regex extractor returns exactly
\* min(max(component matches, action matches, 1), 10) records, record i
\* holding the i-th component match and the i-th action match.
C26_RegexRecordCount ==
    RegexReturned =>
       /\ Len(fn.out) =
             Min(Max(Max(Len(fn.text.components), Len(fn.text.actions)), 1),
                 RegexRecordLimit)
       /\ PairedByPosition

\* C26 (as the code has it) -- the regex extractor returns no record when
\* neither family of patterns matches, and otherwise exactly
\* min(max(component matches, action matches), 10) records, record i holding
\* the i-th component match and the i-th action match.
C26_RegexRecordCountWhenMatched ==
    RegexReturned =>
       /\ Len(fn.out) =
             Min(Max(Len(fn.text.components), Len(fn.text.actions)),
                 RegexRecordLimit)
       /\ PairedByPosition
C26_Witness ==
    /\ RegexReturned
    /\ Len(fn.text.components) > RegexRecordLimit
    /\ Len(fn.text.actions) = 2
    /\ Len(fn.out) = RegexRecordLimit
    /\ fn.out[2].maint_action # None
    /\ fn.out[3].maint_action = None

\* ------------------------------------------------------------------------
\* extract_records on a non-empty list of the AI path
\* (specification SpecExtract)

AIPathList(resp) ==
    IF ~resp.empty /\ parse_json_response(resp).t = "ok"
    THEN parse_json_response(resp).v ELSE <<>>
\* validation leaves nothing of a non-empty list although the regex
\* extractor finds records in the same text
AllDroppedButRegexFinds ==
    /\ fn.op = "extract_records" /\ fn.stage = "output"
    /\ AIPathList(fn.resp) # <<>>
    /\ validate_records(AIPathList(fn.resp)) = Ok(<<>>)
    /\ regex_extract(fn.text) # <<>>

\* C27 -- when the AI path returns a non-empty list, extract_records returns
\* the validated AI records and never the records of the regex extractor:
\* when validation drops every element the result is the empty list, also
\* for a text in which the regex extractor finds records.
C27_NonEmptyListNeverFallsBack ==
    (fn.op = "extract_records" /\ fn.stage = "output"
     /\ AIPathList(fn.resp) # <<>>) =>
        /\ fn.out.t = "ok"
        /\ fn.out = validate_records(AIPathList(fn.resp))
        /\ AllDroppedButRegexFinds => fn.out = Ok(<<>>)

\* ------------------------------------------------------------------------
\* The two priority tables on one token (specification SpecPriority)

\* priority cells of a sheet and priority values of a candidate record
PriorityInputs ==
    {Str(s) : s \in StringsUpTo(MaxLen) \cup NormSampleStrings}
    \cup {Str(<<"h","i","g","h">>), Str(<<"M","e","d","i","u","m">>), Str(<<"L","O","W"," ">>), Str(<<"1">>),
          Str(<<"p","1">>), Str(<<"u","r","g","e","n","t">>), Str(<<"c","r","i","t","i","c","a","l">>),
          Str(<<"m","o","d","e","r","a","t","e">>), Str(<<"P","2">>), Str(<<" ","R","o","u","t","i","n","e">>), Str(<<"p","3">>),
          Str(<<"h","i","g","h","e","s","t">>), Str(<<"4">>), Str(<<>>), None}

InitPriority ==
    /\ docs = <<>>
    /\ records = <<>>
    /\ handlers = [c \in Callers |-> IdleHandler]
    /\ runs = [r \in RunIds |-> FreshRun]
    /\ faults = 0
    /\ conversions = <<>>
    /\ \E value \in PriorityInputs :
          fn = [op |-> "priority", stage |-> "input", arg |-> value,
                legacy |-> None, normalizer |-> None]

\* legacy_converter.py : _normalize_priority, lines 227-242, and
\* normalizer.py : normalize_priority, lines 66-89, on the same value
CallBothPriorityTables ==
    /\ fn.op = "priority"
    /\ fn.stage = "input"
    /\ fn' = [fn EXCEPT !.stage = "output",
                        !.legacy = legacy_normalize_priority(fn.arg),
                        !.normalizer = normalize_priority(fn.arg)]
    /\ UNCHANGED <<docs, records, handlers, runs, faults, conversions>>

NextPriority == CallBothPriorityTables

SpecPriority == InitPriority /\ [][NextPriority]_vars

CanonicalPriorities == {Str(S_high), Str(S_medium), Str(S_low)}
\* the tokens of the three lists of the legacy table
LegacyRecognised ==
    HighAliases \cup MediumAliases \cup LowAliases \cup {S_high, S_medium, S_low}

\* C28 -- whenever the legacy converter's priority table yields high, medium
\* or low for a token, DataNormalizer.normalize_priority yields the same
\* value; the two differ only on tokens that are in none of the legacy
\* table's lists, and those the legacy converter returns unchanged.
C28_PriorityTablesAgree ==
    (fn.op = "priority" /\ fn.stage = "output") =>
       /\ fn.legacy \in CanonicalPriorities => fn.normalizer = fn.legacy
       /\ fn.legacy # fn.normalizer =>
             /\ PriorityToken(fn.arg) \notin LegacyRecognised
             /\ fn.legacy = fn.arg
C28_Witness ==
    /\ fn.op = "priority" /\ fn.stage = "output"
    /\ fn.arg = Str(<<"P","2">>)
    /\ fn.legacy = Str(S_medium)
    /\ fn.normalizer = Str(S_medium)
\* a token outside the legacy lists: passed through by the legacy converter,
\* put in a bucket by the normalizer
C28_DifferenceReached ==
    /\ fn.op = "priority" /\ fn.stage = "output"
    /\ fn.arg = Str(<<"h","i","g","h","e","s","t">>)
    /\ fn.legacy = fn.arg
    /\ fn.normalizer = Str(S_high)

\* ------------------------------------------------------------------------
\* ingestion/excel_extractor.py : extract_text_representation
\* (specification SpecTable)

\* the number of rows of the largest table rendered
MaxRows == 102
\* line 105: the loop stops after the row whose index is 99
LAST_ROW_INDEX == 99
\* line 106: the number the summary line subtracts from len(df)
ROWS_SHOWN == 100

\* a null cell (NaN), skipped by pd.notna
NaN == [t |-> "nan"]
TableColumns == {<<<<"P","a","r","t">>, <<"C","o","s","t">>>>, <<<<"C","o","m","p","o","n","e","n","t">>>>}
\* row k of a sheet: its first cell is null in every third row
TableRow(columns, k) ==
    [c \in 1..Len(columns) |->
        IF c = 1 /\ k % 3 = 0 THEN NaN ELSE Str(NatDigits(k + c))]
\* a frame as read_csv and read_excel return it: the index of the rows is
\* 0, 1, ..., n - 1
Tables ==
    {[columns |-> cols, rows |-> [k \in 1..n |-> TableRow(cols, k)]] :
        cols \in TableColumns, n \in 0..MaxRows}

\* line 100-103: the "col: val" pairs of the cells that are not null
row_text(columns, row) ==
    SelectSeq([c \in 1..Len(columns) |-> [col |-> columns[c], val |-> row[c]]],
              LAMBDA cell : cell.val # NaN)
InitTable ==
    /\ docs = <<>>
    /\ records = <<>>
    /\ handlers = [c \in Callers |-> IdleHandler]
    /\ runs = [r \in RunIds |-> FreshRun]
    /\ faults = 0
    /\ conversions = <<>>
    /\ \E df \in Tables :
          fn = [op |-> "extract_text_representation", stage |-> "input",
                df |-> df, idx |-> 0, out |-> <<>>]

\* extract_text_representation, lines 95-98 -- the header lines
RenderHeader ==
    /\ fn.op = "extract_text_representation"
    /\ fn.stage = "input"
    /\ fn' = [fn EXCEPT
                 !.stage = "loop",
                 !.out = <<[kind |-> "columns", names |-> fn.df.columns],
                           [kind |-> "total", n |-> Len(fn.df.rows)],
                           [kind |-> "blank"]>>]
    /\ UNCHANGED <<docs, records, handlers, runs, faults, conversions>>

\* extract_text_representation, lines 101-108 -- one iteration of the loop
\* over df.iterrows(): the line of the row with index idx, and after the
\* row with index 99 the summary line and break
RenderRow ==
    /\ fn.op = "extract_text_representation"
    /\ fn.stage = "loop"
    /\ fn.idx < Len(fn.df.rows)
    /\ \E line \in {[kind |-> "row", n |-> fn.idx + 1,
                      text |-> row_text(fn.df.columns,
                                        fn.df.rows[fn.idx + 1])]} :
          fn' = IF fn.idx >= LAST_ROW_INDEX
                THEN [fn EXCEPT
                        !.stage = "output",
                        !.out = fn.out \o
                            <<line, [kind |-> "more",
                                     n |-> Len(fn.df.rows) - ROWS_SHOWN]>>]
                ELSE [fn EXCEPT !.idx = fn.idx + 1,
                                !.out = Append(fn.out, line)]
    /\ UNCHANGED <<docs, records, handlers, runs, faults, conversions>>

\* extract_text_representation, line 110 -- the rows are exhausted: the
\* lines are joined and returned
RenderReturn ==
    /\ fn.op = "extract_text_representation"
    /\ fn.stage = "loop"
    /\ fn.idx >= Len(fn.df.rows)
    /\ fn' = [fn EXCEPT !.stage = "output"]
    /\ UNCHANGED <<docs, records, handlers, runs, faults, conversions>>

NextTable == RenderHeader \/ RenderRow \/ RenderReturn

SpecTable == InitTable /\ [][NextTable]_vars

LinesOfKind(kind) == {i \in 1..Len(fn.out) : fn.out[i].kind = kind}

\* C29 -- the rendering of a table with n rows holds exactly min(n, 100)
\* row lines, and holds the summary line "... and N more rows" exactly when
\* n > 100, with N = n - 100.
C29_RowLinesAndSummary ==
    (fn.op = "extract_text_representation" /\ fn.stage = "output") =>
        LET n == Len(fn.df.rows)
        IN /\ Cardinality(LinesOfKind("row")) = Min(n, 100)
           /\ LinesOfKind("more") # {} <=> n > 100
           /\ \A i \in LinesOfKind("more") : fn.out[i].n = n - 100

\* ------------------------------------------------------------------------
\* Sequences of status updates on the records of a converted sheet
\* (specification SpecStatus)

\* history rows kept over all records
MaxHistory == 3
\* the status values of PATCH requests: the four valid ones and the invalid
\* ones of StatusRequests
AllStatusRequests == StatusRequests \cup VALID_STATUSES

\* one PATCH /record/{id}/status request served from beginning to end; fn
\* keeps the request and the HTTP status of its response
StatusRequest(i, s) ==
    /\ update_record_status(i, s, MaxHistory)
    /\ fn' = [op |-> "update_record_status", record |-> i, status |-> s,
              code |-> status_response(i, s)]
    /\ UNCHANGED <<docs, handlers, runs, faults, conversions>>

NextStatus ==
    \/ \E table \in LegacyTables : LegacyConvert(table)
    \/ \E i \in RecordIds, s \in AllStatusRequests : StatusRequest(i, s)

SpecStatus == Init /\ [][NextStatus]_vars

\* the history of record i is a chain from the status it was created with
HistoryChained(i) ==
    LET h == records[i].status_updates
    IN /\ \A k \in 1..Len(h) :
             /\ h[k].previous_status =
                   IF k = 1 THEN Str(S_open) ELSE h[k - 1].new_status
             /\ h[k].new_status.t = "str"
             /\ h[k].new_status.s \in VALID_STATUSES
       /\ h # <<>> => h[Len(h)].new_status = records[i].status
       /\ h = <<>> => records[i].status = Str(S_open)

\* C30 -- after any sequence of status updates applied one after another,
\* every history entry's previous_status is the record's status just before
\* that update and its new_status is one of the four canonical statuses, so
\* the newest entry's new_status is the record's current status; an update
\* naming a status outside the four is rejected and changes neither the
\* record nor the history.
C30_StatusHistoryChained ==
    [][/\ \A i \in 1..Len(records') : HistoryChained(i)'
       /\ \A i \in 1..Len(records) :
             records'[i] # records[i] =>
                /\ fn'.op = "update_record_status" /\ fn'.record = i
                /\ fn'.code = 200
                /\ records'[i].status_updates =
                      Append(records[i].status_updates,
                             [previous_status |-> records[i].status,
                              new_status |-> records'[i].status])
       /\ (fn' # fn /\ fn'.op = "update_record_status"
           /\ fn'.status \notin VALID_STATUSES) =>
                /\ fn'.code \in {400, 404}
                /\ records' = records
      ]_vars
\* two updates of a record, then a rejected one: the history still ends
\* with the record's status
C30_Witness ==
    \E i \in 1..Len(records) :
       /\ Len(records[i].status_updates) = 2
       /\ records[i].status_updates[1].previous_status = Str(S_open)
       /\ records[i].status_updates[2].previous_status = Str(S_in_progress)
       /\ records[i].status_updates[2].new_status = Str(S_awaiting_parts)
       /\ records[i].status = Str(S_awaiting_parts)
       /\ fn.op = "update_record_status" /\ fn.record = i
       /\ fn.status = <<"d","o","n","e">> /\ fn.code = 400

====
